---- MODULE Spec2Model ----
(***************************************************************************)
(* Model of the retry-and-fallback gateway of magi/utils/model_provider.py *)
(* (just-every/magi): the model tables, the fallback planner, the client   *)
(* manager and the generator FallbackStreamWrapper.stream_events.          *)
(***************************************************************************)
EXTENDS Integers, Sequences, FiniteSets, TLC

(***************************************************************************)
(* Python values.  A str is the sequence of its characters, so that        *)
(* str.strip() and truthiness are computed and not assumed.                *)
(***************************************************************************)
PyNone == [t |-> "None"]

PyStr(chars) == [t |-> "str", v |-> chars]

PyList(items) == [t |-> "list", v |-> items]

NoAttr == [t |-> "noattr"]

\* a dict stored as an attribute, given by the set of its items
PyDict(items) == [t |-> "dict", v |-> items]

Whitespace == {" ", "\n", "\t"}

RECURSIVE LStrip(_)
LStrip(s) == IF s # <<>> /\ Head(s) \in Whitespace THEN LStrip(Tail(s)) ELSE s

RECURSIVE RStrip(_)
RStrip(s) ==
    IF s # <<>> /\ s[Len(s)] \in Whitespace THEN RStrip(SubSeq(s, 1, Len(s) - 1)) ELSE s

\* str.strip()
Strip(s) == RStrip(LStrip(s))

\* Python truthiness of None, a str or a list
Truthy(x) == x.t \in {"str", "list"} /\ x.v # <<>>

NoneLiteral == <<"N", "o", "n", "e">>

(***************************************************************************)
(* The static tables.                                                      *)
(***************************************************************************)
NoProvider == "no-provider"

ClassNames == <<"standard", "mini", "reasoning", "vision", "search">>

MODEL_CLASSES ==
    [standard  |-> <<"gpt-4o", "gemini-2.0-flash", "gemini-pro">>,
     mini      |-> <<"gpt-4o-mini", "claude-3-5-haiku-latest", "gemini-2.0-flash-lite">>,
     reasoning |-> <<"o3-mini", "claude-3-7-sonnet-latest", "gemini-2.0-ultra",
                     "grok-2-latest", "grok-2", "grok">>,
     vision    |-> <<"computer-use-preview", "gemini-pro-vision", "gemini-2.0-pro-vision",
                     "gemini-2.0-ultra-vision", "grok-1.5-vision", "grok-2-vision-1212">>,
     search    |-> <<"gpt-4o-search-preview", "gpt-4o-mini-search-preview">>]

MODEL_TO_PROVIDER ==
    [m \in {"gpt-4o", "gpt-4o-mini", "o3-mini", "computer-use-preview",
            "gpt-4o-search-preview", "gpt-4o-mini-search-preview"} |-> "openai"]
    @@ [m \in {"claude-3-7-sonnet-latest", "claude-3-5-haiku-latest"} |-> "anthropic"]
    @@ [m \in {"gemini-pro", "gemini-pro-vision", "gemini-1.5-pro", "gemini-1.5-flash",
               "gemini-2.0-pro", "gemini-2.0-pro-vision", "gemini-2.0-ultra",
               "gemini-2.0-ultra-vision", "gemini-2.0-flash", "gemini-2.0-flash-lite",
               "gemini-2.0-flash-thinking-exp"} |-> "google"]
    @@ [m \in {"grok", "grok-1", "grok-1.5-vision", "grok-2", "grok-2-latest",
               "grok-2-vision-1212"} |-> "xai"]

\* the keys of PROVIDER_API_KEY_ENV_VARS, in declaration order
PROVIDER_API_KEY_ENV_VARS == <<"openai", "anthropic", "google", "xai">>

Providers == {PROVIDER_API_KEY_ENV_VARS[i] : i \in DOMAIN PROVIDER_API_KEY_ENV_VARS}

\* MODEL_TO_PROVIDER.get(model)
ProviderOf(model) ==
    IF model \in DOMAIN MODEL_TO_PROVIDER THEN MODEL_TO_PROVIDER[model] ELSE NoProvider

SeqToSet(s) == {s[i] : i \in DOMAIN s}

RECURSIVE FirstClassOf(_, _)
FirstClassOf(model, i) ==
    IF i > Len(ClassNames) THEN "none"
    ELSE IF model \in SeqToSet(MODEL_CLASSES[ClassNames[i]]) THEN ClassNames[i]
    ELSE FirstClassOf(model, i + 1)

\* the loop of get_fallback_models that finds the class of a model
ClassOf(model) == FirstClassOf(model, 1)

\* a variant that puts each model in front of the list: fallbacks.insert(0, m)
RECURSIVE AppendFrom_Insert(_, _, _, _)
AppendFrom_Insert(fallbacks, s, keep, dedup) ==
    IF s = <<>> THEN fallbacks
    ELSE LET m == Head(s)
             take == m \in keep /\ (dedup => m \notin SeqToSet(fallbacks))
         IN AppendFrom_Insert(IF take THEN <<m>> \o fallbacks ELSE fallbacks, Tail(s), keep, dedup)

\* fallbacks extended, in the order of s, with the elements of s that are in
\* keep and, when dedup is set, not in fallbacks yet
RECURSIVE AppendFrom(_, _, _, _)
AppendFrom(fallbacks, s, keep, dedup) ==
    IF s = <<>> THEN fallbacks
    ELSE LET m == Head(s)
             take == m \in keep /\ (dedup => m \notin SeqToSet(fallbacks))
         IN AppendFrom(IF take THEN Append(fallbacks, m) ELSE fallbacks, Tail(s), keep, dedup)

AllClassified == UNION {SeqToSet(MODEL_CLASSES[c]) : c \in DOMAIN MODEL_CLASSES}

\* a variant without the two same-provider passes over standard and mini
get_fallback_models_ClassOrderOnly(model) ==
    LET provider == ProviderOf(model)
        model_class == ClassOf(model)
        same == {m \in AllClassified : ProviderOf(m) = provider}
        others == AllClassified \ {model}
    IN  IF model_class = "none" THEN <<>>
        ELSE LET own == MODEL_CLASSES[model_class]
                 f1 == AppendFrom(<<>>, own, same \ {model}, FALSE)
                 f2 == AppendFrom(f1, own, others, TRUE)
             IN  IF model_class # "standard" /\ model_class # "mini"
                 THEN LET f5 == AppendFrom(f2, MODEL_CLASSES["standard"], AllClassified, TRUE)
                      IN  AppendFrom(f5, MODEL_CLASSES["mini"], AllClassified, TRUE)
                 ELSE f2

get_fallback_models(model) ==
    LET provider == ProviderOf(model)
        model_class == ClassOf(model)
        same == {m \in AllClassified : ProviderOf(m) = provider}
        others == AllClassified \ {model}
    IN  IF model_class = "none" THEN <<>>
        ELSE LET own == MODEL_CLASSES[model_class]
                 f1 == AppendFrom(<<>>, own, same \ {model}, FALSE)
                 f2 == AppendFrom(f1, own, others, TRUE)
             IN  IF model_class # "standard" /\ model_class # "mini"
                 THEN LET f3 == AppendFrom(f2, MODEL_CLASSES["standard"], same, FALSE)
                          f4 == AppendFrom(f3, MODEL_CLASSES["mini"], same, FALSE)
                          f5 == AppendFrom(f4, MODEL_CLASSES["standard"], AllClassified, TRUE)
                      IN  AppendFrom(f5, MODEL_CLASSES["mini"], AllClassified, TRUE)
                 ELSE f2

(***************************************************************************)
(* Tool translation.  A dict is a function on its keys; a type token is    *)
(* the sequence of its characters, so that str.upper() is computed.        *)
(***************************************************************************)
EmptyDict == [k \in {} |-> 0]

\* d.get(k, default)
Get(d, k, default) == IF k \in DOMAIN d THEN d[k] ELSE default

\* d[k] = v
Put(d, k, v) == [x \in DOMAIN d \cup {k} |-> IF x = k THEN v ELSE d[x]]

\* del d[k]
Del(d, k) == [x \in DOMAIN d \ {k} |-> d[x]]

LowerCase == <<"a", "b", "c", "e", "g", "i", "j", "n", "o", "r", "s", "t">>

UpperCase == <<"A", "B", "C", "E", "G", "I", "J", "N", "O", "R", "S", "T">>

UpperChar(c) ==
    IF \E i \in DOMAIN LowerCase : LowerCase[i] = c
    THEN UpperCase[CHOOSE i \in DOMAIN LowerCase : LowerCase[i] = c]
    ELSE c

\* str.upper()
Upper(str) == [i \in DOMAIN str |-> UpperChar(str[i])]

ObjectToken == <<"o", "b", "j", "e", "c", "t">>

StringToken == <<"s", "t", "r", "i", "n", "g">>

\* the tools of the list that the loops translate, in their order
FunctionTools(tools) == SelectSeq(tools, LAMBDA tool : Get(tool, "type", "") = "function")

\* a variant that empties the required list of every schema
ClaudeParameters_ResetRequired(parameters) ==
    IF "type" \in DOMAIN parameters /\ parameters["type"] = ObjectToken
    THEN LET p1 == Del(parameters, "type")
             p2 == IF "properties" \notin DOMAIN p1 THEN Put(p1, "properties", EmptyDict) ELSE p1
         IN  Put(p2, "required", <<>>)
    ELSE parameters

\* the parameters of a tool in Claude's format, made from a copy
ClaudeParameters(parameters) ==
    IF "type" \in DOMAIN parameters /\ parameters["type"] = ObjectToken
    THEN LET p1 == Del(parameters, "type")
             p2 == IF "properties" \notin DOMAIN p1 THEN Put(p1, "properties", EmptyDict) ELSE p1
         IN  IF "required" \notin DOMAIN p2 THEN Put(p2, "required", <<>>) ELSE p2
    ELSE parameters

\* the result of convert_openai_tools_to_claude_format for a list of dicts
convert_openai_tools_to_claude_format(tools) ==
    LET claude_tool(tool) ==
            LET function_info == Get(tool, "function", EmptyDict)
            IN  [type |-> "custom",
                 custom |-> [name |-> Get(function_info, "name", ""),
                             description |-> Get(function_info, "description", ""),
                             parameters |->
                                ClaudeParameters(Get(function_info, "parameters", EmptyDict))]]
        fts == FunctionTools(tools)
    IN  [i \in DOMAIN fts |-> claude_tool(fts[i])]

\* a variant that leaves the property definitions as they are
UpperProperties_Untouched(properties) == properties

\* for property_def in properties.values(): property_def["type"] upper-cased
UpperProperties(properties) ==
    [n \in DOMAIN properties |->
        IF "type" \in DOMAIN properties[n]
        THEN Put(properties[n], "type", Upper(properties[n]["type"]))
        ELSE properties[n]]

\* the parameters of a tool in Gemini's format: the top level is a copy, the
\* property definitions are those of the tool that was passed in
GeminiParameters(parameters) ==
    LET p1 == IF "type" \in DOMAIN parameters
              THEN Put(parameters, "type", Upper(parameters["type"]))
              ELSE Put(parameters, "type", Upper(ObjectToken))
    IN  IF "properties" \in DOMAIN p1
        THEN Put(p1, "properties", UpperProperties(p1["properties"]))
        ELSE p1

\* the result of convert_openai_tools_to_gemini_format for a list of dicts
convert_openai_tools_to_gemini_format(tools) ==
    LET gemini_tool(tool) ==
            LET function_info == Get(tool, "function", EmptyDict)
            IN  [function_declarations |->
                    <<[name |-> Get(function_info, "name", ""),
                       description |-> Get(function_info, "description", ""),
                       parameters |->
                          GeminiParameters(Get(function_info, "parameters", EmptyDict))]>>]
        fts == FunctionTools(tools)
    IN  [i \in DOMAIN fts |-> gemini_tool(fts[i])]

\* the list that was passed to convert_openai_tools_to_gemini_format, after the
\* call: the copy of parameters is shallow, so the assignments to property_def
\* are made in the caller's dicts
gemini_format_argument_after(tools) ==
    LET after(tool) ==
            IF /\ Get(tool, "type", "") = "function"
               /\ "function" \in DOMAIN tool
               /\ "parameters" \in DOMAIN tool["function"]
               /\ "properties" \in DOMAIN tool["function"]["parameters"]
            THEN LET parameters == tool["function"]["parameters"]
                 IN  Put(tool, "function",
                         Put(tool["function"], "parameters",
                             Put(parameters, "properties",
                                 UpperProperties(parameters["properties"]))))
            ELSE tool
    IN  [i \in DOMAIN tools |-> after(tools[i])]

\* convert_tools_for_provider for a list of dicts: the result, and the list
\* passed in as it is after the call
convert_tools_for_provider(tools, provider) ==
    IF tools = <<>> THEN [result |-> <<>>, tools |-> tools]
    ELSE IF provider = "anthropic"
    THEN [result |-> convert_openai_tools_to_claude_format(tools), tools |-> tools]
    ELSE IF provider = "google"
    THEN [result |-> convert_openai_tools_to_gemini_format(tools),
          tools |-> gemini_format_argument_after(tools)]
    ELSE [result |-> tools, tools |-> tools]

(***************************************************************************)
(* ModelClientManager                                                      *)
(***************************************************************************)
\* a variant that lists a provider as available before its client is built
ModelClientManager_ListedFirst(keys, broken) ==
    LET listed == SelectSeq(PROVIDER_API_KEY_ENV_VARS, LAMBDA p : p \in keys)
    IN  [clients |-> keys \ broken,
         available_providers |-> listed,
         available_models |-> {m \in DOMAIN MODEL_TO_PROVIDER : MODEL_TO_PROVIDER[m] \in keys}]

ModelClientManager_ModelsByCredential(keys, broken) ==
    LET avail == SelectSeq(PROVIDER_API_KEY_ENV_VARS, LAMBDA p : p \in keys /\ p \notin broken)
    IN  [clients |-> SeqToSet(avail),
         available_providers |-> avail,
         available_models |-> {m \in DOMAIN MODEL_TO_PROVIDER : MODEL_TO_PROVIDER[m] \in keys}]

ModelClientManager_Aborts(keys, broken) ==
    LET listed == SelectSeq(PROVIDER_API_KEY_ENV_VARS, LAMBDA p : p \in keys)
        failed == {i \in 1..Len(listed) : listed[i] \in broken}
        stop   == IF failed = {} THEN Len(listed) + 1
                  ELSE CHOOSE i \in failed : \A j \in failed : i <= j
        avail  == SubSeq(listed, 1, stop - 1)
    IN  [clients |-> SeqToSet(avail),
         available_providers |-> avail,
         available_models |->
            {m \in DOMAIN MODEL_TO_PROVIDER : MODEL_TO_PROVIDER[m] \in SeqToSet(avail)}]

\* ModelClientManager.__init__: one client per provider whose key is set and
\* whose client could be built (broken: the providers whose construction raises)
ModelClientManager(keys, broken) ==
    LET avail == SelectSeq(PROVIDER_API_KEY_ENV_VARS, LAMBDA p : p \in keys /\ p \notin broken)
    IN  [clients |-> SeqToSet(avail),
         available_providers |-> avail,
         available_models |->
            {m \in DOMAIN MODEL_TO_PROVIDER : MODEL_TO_PROVIDER[m] \in SeqToSet(avail)}]

get_client_for_model_AnyProvider(manager, model) ==
    LET provider == ProviderOf(model)
    IN  IF provider = NoProvider THEN PyNone
        ELSE [t |-> "client", provider |-> provider]

\* the client of a model (a client is named by its provider), or PyNone
get_client_for_model(manager, model) ==
    LET provider == ProviderOf(model)
    IN  IF provider = NoProvider THEN PyNone
        ELSE IF provider \in manager.clients
             THEN [t |-> "client", provider |-> provider]
             ELSE PyNone

\* get_fallback_models depends on its argument alone: its values for the models
\* of MODEL_TO_PROVIDER, computed once
FallbackModelsOf == [m \in DOMAIN MODEL_TO_PROVIDER |-> get_fallback_models(m)]

available_fallbacks(manager, model) ==
    SelectSeq(IF model \in DOMAIN FallbackModelsOf THEN FallbackModelsOf[model]
              ELSE get_fallback_models(model),
              LAMBDA m : m \in manager.available_models)

\* setup_retry_and_fallback_provider: the primary provider, or NoProvider
preferred_providers == <<"openai", "anthropic", "google", "xai">>

primary_provider(manager) ==
    LET found == SelectSeq(preferred_providers,
                           LAMBDA p : p \in SeqToSet(manager.available_providers))
    IN  IF found = <<>> THEN NoProvider ELSE Head(found)

(***************************************************************************)
(* What a backend call can give back to stream_events.                     *)
(***************************************************************************)
RaiseResult(reason) == [t |-> "raise", reason |-> reason]

\* a response object: the number of choices, and of choices[0].message the
\* content and the tool_calls, and the response's own text attribute
Response(n, content, tool_calls, text) ==
    [t |-> "response", choices |-> n, content |-> content,
     tool_calls |-> tool_calls, text |-> text]

Texts == {<<>>, <<" ">>, NoneLiteral, <<"h", "i">>}

SomeToolCalls == PyList(<<"call_0">>)

FailureKinds == {"error", "timeout"}

Raises == {RaiseResult(k) : k \in FailureKinds}

\* client.chat.completions.create
ClientResults ==
    Raises
    \cup {Response(0, PyNone, PyNone, NoAttr)}
    \cup {Response(1, c, tc, NoAttr) :
            c \in {PyNone} \cup {PyStr(x) : x \in Texts},
            tc \in {PyNone, PyList(<<>>), SomeToolCalls}}

\* what a provider sends back to a backend caller: the text of its reply and
\* the tool uses in it (alt: the text found in the parts or by resolve())
ProviderReply(text, alt, calls) == [t |-> "reply", text |-> text, alt |-> alt, calls |-> calls]

\* an attribute whose reading raises (response.text of a reply without text part)
ReadRaises == [t |-> "raises"]

\* tool_calls if tool_calls else None
ListOrNone(calls) == IF calls # <<>> THEN PyList(calls) ELSE PyNone

\* "I am an AI orchestration engine called MAGI."
OrchestrationText == <<"e", "n", "g", "i", "n", "e">>

\* "I am an AI orchestration engine called MAGI. I'm designed to ..."
FallbackText == <<"f", "a", "l", "l", "b", "a", "c", "k">>

\* call_claude_directly after its key check: first is the outcome of the first
\* messages.create, second the outcome of the one made when the first raised
call_claude_directly(tools, first, second) ==
    IF first.t = "raise"
    THEN IF second.t = "raise" THEN second
         ELSE Response(1, second.text, NoAttr, NoAttr)
    ELSE IF tools
         THEN Response(1, first.text, ListOrNone(first.calls), NoAttr)
         ELSE Response(1, first.text, NoAttr, NoAttr)

\* call_gemini_directly after its key check
call_gemini_directly(tools, reply) ==
    IF reply.t = "raise" THEN reply
    ELSE IF tools
    THEN LET response_text ==
                 IF reply.text = ReadRaises THEN PyStr(OrchestrationText) ELSE reply.text
         IN  Response(1, response_text, ListOrNone(reply.calls), response_text)
    ELSE IF reply.text = ReadRaises THEN RaiseResult("error")
    ELSE LET m1 == reply.text
             m3 == IF ~Truthy(m1) THEN reply.alt ELSE m1
             m4 == IF ~Truthy(m3) THEN PyStr(FallbackText) ELSE m3
         IN  IF ~Truthy(m4) \/ Strip(m4.v) = <<>>
             THEN RaiseResult("error")
             ELSE Response(1, m4, NoAttr, m4)

\* call_grok_directly after its key check: reply is the JSON of the answer,
\* text its message.content (NoAttr: no such key), calls its message.tool_calls
call_grok_directly(reply) ==
    IF reply.t = "raise" THEN reply
    ELSE IF reply.choices = 0 THEN RaiseResult("error")
    ELSE Response(1, IF reply.text = NoAttr THEN PyStr(<<>>) ELSE reply.text,
                  reply.calls, NoAttr)

SomeCalls == {<<>>, <<"call_0">>}

ClaudeReplies == {ProviderReply(PyStr(x), PyStr(<<>>), c) : x \in Texts, c \in SomeCalls}

GeminiReplies ==
    {ProviderReply(x, PyStr(a), c) :
        x \in {ReadRaises} \cup {PyStr(y) : y \in Texts},
        a \in {<<>>, <<" ">>, <<"h", "i">>},
        c \in SomeCalls}

GrokReplies ==
    {[t |-> "reply", choices |-> n, text |-> x, calls |-> c] :
        n \in 0..1,
        x \in {NoAttr, PyNone} \cup {PyStr(y) : y \in Texts},
        c \in {PyNone, PyList(<<>>), SomeToolCalls}}

\* the results of call_claude_directly
ClaudeResults ==
    {call_claude_directly(tl, f, s) :
        tl \in BOOLEAN, f \in Raises \cup ClaudeReplies, s \in Raises \cup ClaudeReplies}

\* the results of call_gemini_directly
GeminiResults ==
    {call_gemini_directly(tl, r) : tl \in BOOLEAN, r \in Raises \cup GeminiReplies}

\* the results of call_grok_directly
GrokResults == {call_grok_directly(r) : r \in Raises \cup GrokReplies}

\* the provider that a backend talks to
BackendProvider(backend, model) ==
    CASE backend = "call_claude_directly" -> "anthropic"
      [] backend = "call_gemini_directly" -> "google"
      [] backend = "call_grok_directly" -> "xai"
      [] OTHER -> ProviderOf(model)

GoodAnswer(backend) ==
    Response(1, PyStr(<<"h", "i">>), PyNone,
             IF backend = "call_gemini_directly" THEN PyStr(<<"h", "i">>) ELSE NoAttr)

\* the results of one call of backend for model: the three direct callers raise
\* when their key is not set; a backend of the reliable provider answers with text
BackendResults(backend, model, keys, good) ==
    LET provider == BackendProvider(backend, model)
    IN  IF backend # "client" /\ provider \notin keys THEN {RaiseResult("no_key")}
        ELSE IF provider = good THEN {GoodAnswer(backend)}
        ELSE CASE backend = "call_claude_directly" -> ClaudeResults
               [] backend = "call_gemini_directly" -> GeminiResults
               [] backend = "call_grok_directly" -> GrokResults
               [] OTHER -> ClientResults

(***************************************************************************)
(* Pure steps of stream_events.                                            *)
(***************************************************************************)
GROK_AVAILABLE == TRUE

DefaultMaxRetries == 3

RetryDelay == 2

\* "I am an AI model in the MAGI system. ..."
DefaultMessage == <<"M", "A", "G", "I">>

\* the direct first call made for the requested model, by its provider
DirectCaller(provider, anthropic_lib, gemini_lib) ==
    IF provider = "anthropic" /\ anthropic_lib THEN "call_claude_directly"
    ELSE IF provider = "google" /\ gemini_lib THEN "call_gemini_directly"
    ELSE IF provider = "xai" /\ GROK_AVAILABLE THEN "call_grok_directly"
    ELSE "none"

\* the direct calls that stand inside try/except Exception
DirectGuarded(caller) == caller \in {"call_claude_directly", "call_grok_directly"}

\* Agent.fallback_mapping.get(original_model, available_fallbacks(original_model))
MappingGet(mapping, manager, original_model) ==
    IF \E e \in mapping : e[1] = original_model
    THEN (CHOOSE e \in mapping : e[1] = original_model)[2]
    ELSE available_fallbacks(manager, original_model)

\* a variant that puts the requested model after its fallbacks
ModelsToTry_FallbacksFirst(mapping, manager, original_model) ==
    MappingGet(mapping, manager, original_model) \o <<original_model>>

ModelsToTry(mapping, manager, original_model) ==
    <<original_model>> \o MappingGet(mapping, manager, original_model)

\* a variant with a strict comparison: while retries < max_retries
WhileCond_Strict(r, maxr) == r < maxr

\* while retries <= max_retries
WhileCond(r, maxr) == r <= maxr

\* the ValueError raised at the head of the try block for bypassed providers
ForcedRaise(provider, gemini_lib) ==
    \/ provider = "anthropic"
    \/ provider = "google" /\ gemini_lib
    \/ provider = "xai" /\ GROK_AVAILABLE

\* the backend simple_run calls first for a provider
SimpleRunBackend(provider, gemini_lib) ==
    IF provider = "anthropic" THEN "call_claude_directly"
    ELSE IF provider = "google" /\ gemini_lib THEN "call_gemini_directly"
    ELSE IF provider = "xai" /\ GROK_AVAILABLE THEN "call_grok_directly"
    ELSE "client"

\* a variant with a strict comparison: if retries < max_retries
ShouldRetry_Strict(r, maxr) == r < maxr

\* if retries <= max_retries, after retries += 1
ShouldRetry(r, maxr) == r <= maxr

\* a variant with an exponential backoff: retry_delay * 2 ** (retries - 1)
BackoffDelay_Exponential(delay, r) == delay * 2 ^ (r - 1)

\* asyncio.sleep(retry_delay * retries)
BackoffDelay(delay, r) == delay * r

HasChoices(response) == response.choices > 0

\* hasattr(message, 'tool_calls') and message.tool_calls
HasToolCalls(response) == HasChoices(response) /\ Truthy(response.tool_calls)

\* content extraction of the retry loop: choices[0].message.content, then
\* response.text, then the default message
ExtractContent(response) ==
    LET c1 == IF HasChoices(response) THEN response.content ELSE PyNone
        c2 == IF ~Truthy(c1) /\ response.text # NoAttr THEN response.text ELSE c1
    IN  IF ~Truthy(c2) THEN PyStr(DefaultMessage) ELSE c2

\* the extra validation of the retry loop (negated: the content passes)
ContentValid(content) ==
    ~(~Truthy(content) \/ (content.t = "str" /\ Strip(content.v) = <<>>))

\* a variant of SimpleResponseEvent.__init__ without content.strip() == ""
SimpleResponseEventOk_NoStrip(content) ==
    ~(content = PyNone \/ content = PyStr(NoneLiteral))

\* SimpleResponseEvent.__init__ does not raise
SimpleResponseEventOk(content) ==
    ~(content = PyNone \/ content = PyStr(NoneLiteral) \/ Strip(content.v) = <<>>)

SimpleResponseEvent(content, model) == [type |-> "message", content |-> content, model |-> model]

ToolCallEvent(tool_calls, model) == [type |-> "tool_calls", tool_calls |-> tool_calls, model |-> model]

NoEvent == [type |-> "none"]

\* a variant without the return: the generator goes on with the retry loop
AfterYield_NoReturn == "while"

\* the generator returns after it has yielded its event
AfterYield == "done"

\* a variant that does not await simple_run but goes on to the backoff sleep
AwaitSimpleRun_NotAwaited == "sleep"

\* the generator is suspended while simple_run is awaited
AwaitSimpleRun == "await_simple_run"

NotApplied == [t |-> "not applied"]

(***************************************************************************)
(* Bounds and inputs.                                                      *)
(***************************************************************************)
MaxRetriesBound == 3

\* the longest list of tools translated
MaxTools == 2

RequestedModels ==
    {"gpt-4o", "claude-3-7-sonnet-latest", "gemini-2.0-flash", "grok-2",
     "gemini-1.5-pro", "totally-unknown-model"}

ConfiguredList == <<"gpt-4o", "nosuch-model", "claude-3-5-haiku-latest", "gpt-4o">>

(***************************************************************************)
(* State.                                                                  *)
(***************************************************************************)
\* no second run of stream_events is under way
NoOtherRun == [pc |-> "no run"]

VARIABLES
    api_keys,            \* the providers whose API key is set in the environment
    ANTHROPIC_AVAILABLE, \* the anthropic library was imported
    GEMINI_AVAILABLE,    \* the google.generativeai library was imported
    max_retries,         \* MAGI_MAX_RETRIES
    client_manager,      \* Agent.client_manager
    fallback_mapping,    \* Agent.fallback_mapping, a set of <<model, list>> items
    default_client,      \* the framework's process-wide default client
    reliable,            \* the provider whose backend always answers with text
    agent_model,         \* agent.model of the caller's agent
    pc,                  \* the position of the generator stream_events
    models_to_try,
    tried_models,
    idx,                 \* the position of the for loop in models_to_try
    retries,
    error_logs,          \* FallbackStreamWrapper.error_logs
    sleep_for,           \* the delay of the asyncio.sleep under way
    inflight,            \* the backend calls under way
    framework_streams,   \* results of Runner._original_run_streamed, never consumed
    emitted,             \* the event yielded to the caller
    raised,              \* the exception raised to the caller
    attempts,            \* history: the attempts made, in order
    answer_raw,          \* history: the backend result the emitted event was made from
    fn,                  \* the function applied on its own, outside a run
    fn_in,               \* its arguments
    fn_out,              \* its result, NotApplied before the call
    fn_again,            \* the result of a second call with the same arguments
    other_run,           \* the run of stream_events that is not executing now
    abandoned,           \* requests still running in a thread nobody waits for
    cancelled_at,        \* history: the number of attempts made when the caller
                         \* cancelled the task, -1 while it has not
    runner_patched,      \* Runner.run and Runner.run_streamed are the patched ones
    agent_copy           \* the class Agent has a copy method

env_vars == <<api_keys, ANTHROPIC_AVAILABLE, GEMINI_AVAILABLE, max_retries, client_manager,
              fallback_mapping, reliable, agent_model, fn, fn_in, fn_out, abandoned,
              cancelled_at, runner_patched, agent_copy, fn_again, other_run>>

vars == <<api_keys, ANTHROPIC_AVAILABLE, GEMINI_AVAILABLE, max_retries, client_manager,
          fallback_mapping, default_client, reliable, agent_model, pc, models_to_try,
          tried_models, idx, retries, error_logs, sleep_for, inflight, framework_streams,
          emitted, raised, attempts, answer_raw, fn, fn_in, fn_out, abandoned,
          cancelled_at, runner_patched, agent_copy, fn_again, other_run>>

Init ==
    /\ api_keys \in (SUBSET Providers) \ {{}}
    /\ ANTHROPIC_AVAILABLE \in BOOLEAN
    /\ GEMINI_AVAILABLE \in BOOLEAN
    /\ max_retries \in (0 - 1)..MaxRetriesBound
    /\ client_manager = ModelClientManager(api_keys, {})
    /\ agent_model \in RequestedModels
    /\ fallback_mapping \in {{}, {<<agent_model, ConfiguredList>>}}
    /\ default_client = [t |-> "client", provider |-> primary_provider(client_manager)]
    /\ reliable \in {NoProvider} \cup api_keys
    /\ pc = "start"
    /\ models_to_try = <<>>
    /\ tried_models = {}
    /\ idx = 0
    /\ retries = 0
    /\ error_logs = <<>>
    /\ sleep_for = 0
    /\ inflight = {}
    /\ framework_streams = 0
    /\ emitted = NoEvent
    /\ raised = PyNone
    /\ attempts = <<>>
    /\ answer_raw = PyNone
    /\ fn = "stream_events"
    /\ fn_in = PyNone
    /\ fn_out = PyNone
    /\ abandoned = {}
    /\ cancelled_at = 0 - 1
    /\ fn_again = NotApplied
    /\ other_run = NoOtherRun
    /\ runner_patched = TRUE
    /\ agent_copy = TRUE

(***************************************************************************)
(* stream_events                                                           *)
(***************************************************************************)
original_model == agent_model

model_name == models_to_try[idx]

Attempt(model, via, backend) == [model |-> model, via |-> via, backend |-> backend]

\* a backend call under way, numbered by the attempt that issued it
Call(model, backend, n) == [model |-> model, backend |-> backend, n |-> n]

\* "If direct API calls failed, try fallbacks": the plan and the empty tried set
BeginLoop ==
    /\ models_to_try' = ModelsToTry(fallback_mapping, client_manager, original_model)
    /\ tried_models' = {}
    /\ idx' = 1
    /\ pc' = "for"

\* yield event; return
Yield(event, result) ==
    /\ emitted' = event
    /\ answer_raw' = result
    /\ pc' = AfterYield

\* except Exception of the retry loop
Handler ==
    /\ retries' = retries + 1
    /\ IF ShouldRetry(retries + 1, max_retries)
       THEN /\ pc' = "sleep"
            /\ sleep_for' = BackoffDelay(RetryDelay, retries + 1)
            /\ idx' = idx
       ELSE /\ pc' = "for"
            /\ sleep_for' = 0
            /\ idx' = idx + 1

\* the requested model's provider has a direct caller: it is awaited
StartDirect ==
    LET caller == DirectCaller(ProviderOf(original_model), ANTHROPIC_AVAILABLE, GEMINI_AVAILABLE)
    IN  /\ pc = "start"
        /\ caller # "none"
        /\ inflight' = inflight \cup {Call(original_model, caller, Len(attempts) + 1)}
        /\ attempts' = Append(attempts, Attempt(original_model, "direct", caller))
        /\ pc' = "await_direct"
        /\ UNCHANGED <<env_vars, default_client, models_to_try, tried_models, idx, retries,
                       error_logs, sleep_for, framework_streams, emitted, raised, answer_raw>>

\* no direct caller: straight to the candidate loop
StartLoop ==
    /\ pc = "start"
    /\ DirectCaller(ProviderOf(original_model), ANTHROPIC_AVAILABLE, GEMINI_AVAILABLE) = "none"
    /\ BeginLoop
    /\ UNCHANGED <<env_vars, default_client, retries, error_logs, sleep_for, inflight,
                   framework_streams, emitted, raised, attempts, answer_raw>>

\* the direct call returns r or raises r
DirectReturnWith(call, r) ==
    LET failure ==
            \* an exception of the call or of SimpleResponseEvent
            IF DirectGuarded(call.backend)
            THEN BeginLoop /\ UNCHANGED <<emitted, raised, answer_raw>>
            ELSE /\ raised' = [t |-> "backend", model |-> call.model]
                 /\ pc' = "raised"
                 /\ UNCHANGED <<models_to_try, tried_models, idx, emitted, answer_raw>>
    IN  /\ pc = "await_direct"
        /\ inflight' = inflight \ {call}
        /\ IF r.t = "raise" THEN failure
           ELSE IF ~HasChoices(r)
           THEN BeginLoop /\ UNCHANGED <<emitted, raised, answer_raw>>
           ELSE IF HasToolCalls(r)
           THEN /\ Yield(ToolCallEvent(r.tool_calls, original_model), r)
                /\ UNCHANGED <<models_to_try, tried_models, idx, raised>>
           ELSE IF SimpleResponseEventOk(r.content)
           THEN /\ Yield(SimpleResponseEvent(r.content, original_model), r)
                /\ UNCHANGED <<models_to_try, tried_models, idx, raised>>
           ELSE failure
        /\ UNCHANGED <<env_vars, default_client, retries, error_logs, sleep_for,
                       framework_streams, attempts>>

DirectReturn ==
    \E call \in inflight :
       \E r \in BackendResults(call.backend, call.model, api_keys, reliable) :
          DirectReturnWith(call, r)

\* for model_name in models_to_try: the list is used up
ForExhausted ==
    /\ pc = "for"
    /\ idx > Len(models_to_try)
    /\ raised' = [t |-> "RuntimeError", attempted |-> tried_models]
    /\ pc' = "raised"
    /\ UNCHANGED <<env_vars, default_client, models_to_try, tried_models, idx, retries,
                   error_logs, sleep_for, inflight, framework_streams, emitted, attempts,
                   answer_raw>>

\* if model_name in tried_models: continue
ForSkipTried ==
    /\ pc = "for"
    /\ idx <= Len(models_to_try)
    /\ model_name \in tried_models
    /\ idx' = idx + 1
    /\ UNCHANGED <<env_vars, default_client, pc, models_to_try, tried_models, retries,
                   error_logs, sleep_for, inflight, framework_streams, emitted, raised,
                   attempts, answer_raw>>

\* if not provider: log and continue
ForNoProvider ==
    /\ pc = "for"
    /\ idx <= Len(models_to_try)
    /\ model_name \notin tried_models
    /\ ProviderOf(model_name) = NoProvider
    /\ tried_models' = tried_models \cup {model_name}
    /\ error_logs' = Append(error_logs, [log |-> "No provider defined", model |-> model_name])
    /\ idx' = idx + 1
    /\ UNCHANGED <<env_vars, default_client, pc, models_to_try, retries, sleep_for, inflight,
                   framework_streams, emitted, raised, attempts, answer_raw>>

\* if not client: log and continue
ForNoClient ==
    /\ pc = "for"
    /\ idx <= Len(models_to_try)
    /\ model_name \notin tried_models
    /\ ProviderOf(model_name) # NoProvider
    /\ get_client_for_model(client_manager, model_name) = PyNone
    /\ tried_models' = tried_models \cup {model_name}
    /\ error_logs' = Append(error_logs, [log |-> "No client available", model |-> model_name])
    /\ idx' = idx + 1
    /\ UNCHANGED <<env_vars, default_client, pc, models_to_try, retries, sleep_for, inflight,
                   framework_streams, emitted, raised, attempts, answer_raw>>

\* the caller's agent: an object, known by its identity, with its model attribute
CallerAgent == [id |-> 0, model |-> agent_model]

\* a variant of copy_method that hands back the agent itself
copy_method_SameObject(self) == self

\* Agent.copy as add_copy_method_to_agent defines it: copy.copy(self) is a new
\* object with the attributes of self
copy_method(self) == [self EXCEPT !.id = self.id + 1]

\* new_agent = agent.copy(); new_agent.model = model_name
NewAgent(agent, name) == [copy_method(agent) EXCEPT !.model = name]

\* the caller's agent once new_agent was written to
AgentAfter(agent, new_agent) == IF new_agent.id = agent.id THEN new_agent ELSE agent

\* a variant without `if model_name in tried_models: continue`
ForEnter_TriedAgain ==
    /\ pc = "for"
    /\ idx <= Len(models_to_try)
    /\ ProviderOf(model_name) # NoProvider
    /\ get_client_for_model(client_manager, model_name) # PyNone
    /\ tried_models' = tried_models \cup {model_name}
    /\ default_client' = get_client_for_model(client_manager, model_name)
    /\ retries' = 0
    /\ pc' = "while"
    /\ agent_model' = AgentAfter(CallerAgent, NewAgent(CallerAgent, model_name)).model
    /\ UNCHANGED <<api_keys, ANTHROPIC_AVAILABLE, GEMINI_AVAILABLE, max_retries,
                   client_manager, fallback_mapping, reliable, fn, fn_in, fn_out, abandoned,
                   cancelled_at, runner_patched, agent_copy, fn_again, other_run,
                   models_to_try, idx, error_logs, sleep_for, inflight,
                   framework_streams, emitted, raised, attempts, answer_raw>>

\* the candidate has a client: it becomes the default client, retries = 0
ForEnter ==
    /\ pc = "for"
    /\ idx <= Len(models_to_try)
    /\ model_name \notin tried_models
    /\ ProviderOf(model_name) # NoProvider
    /\ get_client_for_model(client_manager, model_name) # PyNone
    /\ tried_models' = tried_models \cup {model_name}
    /\ default_client' = get_client_for_model(client_manager, model_name)
    /\ retries' = 0
    /\ pc' = "while"
    /\ agent_model' = AgentAfter(CallerAgent, NewAgent(CallerAgent, model_name)).model
    /\ UNCHANGED <<api_keys, ANTHROPIC_AVAILABLE, GEMINI_AVAILABLE, max_retries,
                   client_manager, fallback_mapping, reliable, fn, fn_in, fn_out, abandoned,
                   cancelled_at, runner_patched, agent_copy, fn_again, other_run,
                   models_to_try, idx, error_logs, sleep_for, inflight,
                   framework_streams, emitted, raised, attempts, answer_raw>>

\* the while condition is false: on to the next candidate
WhileExit ==
    /\ pc = "while"
    /\ ~WhileCond(retries, max_retries)
    /\ idx' = idx + 1
    /\ pc' = "for"
    /\ UNCHANGED <<env_vars, default_client, models_to_try, tried_models, retries, error_logs,
                   sleep_for, inflight, framework_streams, emitted, raised, attempts,
                   answer_raw>>

\* an attempt that raises ValueError at the head of the try block
TryForced ==
    /\ pc = "while"
    /\ WhileCond(retries, max_retries)
    /\ ForcedRaise(ProviderOf(model_name), GEMINI_AVAILABLE)
    /\ attempts' = Append(attempts, Attempt(model_name, "loop", "none"))
    /\ Handler
    /\ UNCHANGED <<env_vars, default_client, models_to_try, tried_models, error_logs, inflight,
                   framework_streams, emitted, raised, answer_raw>>

\* an attempt that asks the framework for a streamed run and awaits simple_run
TryCall ==
    /\ pc = "while"
    /\ WhileCond(retries, max_retries)
    /\ ~ForcedRaise(ProviderOf(model_name), GEMINI_AVAILABLE)
    /\ framework_streams' = framework_streams + 1
    /\ LET backend == SimpleRunBackend(ProviderOf(model_name), GEMINI_AVAILABLE)
       IN  /\ inflight' = inflight \cup {Call(model_name, backend, Len(attempts) + 1)}
           /\ attempts' = Append(attempts, Attempt(model_name, "loop", backend))
    /\ pc' = AwaitSimpleRun
    /\ UNCHANGED <<env_vars, default_client, models_to_try, tried_models, idx, retries,
                   error_logs, sleep_for, emitted, raised, answer_raw>>

\* simple_run's backend call returns r or raises r
SimpleRunReturnWith(call, r) ==
    /\ pc = "await_simple_run"
    /\ IF r.t = "raise" /\ call.backend # "client"
       THEN \* the library call failed: simple_run goes on to the generic client call
            /\ inflight' = (inflight \ {call}) \cup {Call(call.model, "client", call.n)}
            /\ UNCHANGED <<pc, idx, retries, sleep_for, emitted, answer_raw>>
       ELSE /\ inflight' = inflight \ {call}
            /\ IF r.t = "raise"
               THEN Handler /\ UNCHANGED <<emitted, answer_raw>>
               ELSE IF HasToolCalls(r)
               THEN /\ Yield(ToolCallEvent(r.tool_calls, model_name), r)
                    /\ UNCHANGED <<idx, retries, sleep_for>>
               ELSE LET content == ExtractContent(r)
                    IN  IF ContentValid(content) /\ SimpleResponseEventOk(content)
                        THEN /\ Yield(SimpleResponseEvent(content, model_name), r)
                             /\ UNCHANGED <<idx, retries, sleep_for>>
                        ELSE Handler /\ UNCHANGED <<emitted, answer_raw>>
    /\ UNCHANGED <<env_vars, default_client, models_to_try, tried_models, error_logs,
                   framework_streams, raised, attempts>>

SimpleRunReturn ==
    \E call \in inflight :
       \E r \in BackendResults(call.backend, call.model, api_keys, reliable) :
          SimpleRunReturnWith(call, r)

\* the backoff sleep is over
SleepDone ==
    /\ pc = "sleep"
    /\ pc' = "while"
    /\ sleep_for' = 0
    /\ UNCHANGED <<env_vars, default_client, models_to_try, tried_models, idx, retries,
                   error_logs, inflight, framework_streams, emitted, raised, attempts,
                   answer_raw>>

\* a variant in which the handlers are except BaseException
ExceptException_Base(exc) == TRUE

\* except Exception: asyncio.CancelledError derives from BaseException
ExceptException(exc) == exc # "CancelledError"

\* a call that the event loop waits for; model.generate_content of
\* call_gemini_directly is a blocking call with no suspension point
Suspends(backend) == backend # "call_gemini_directly"

\* the caller cancels the task while the generator is suspended in a call or
\* in the backoff sleep: CancelledError is thrown into the generator there
Cancel ==
    /\ \/ pc \in {"await_direct", "await_simple_run"} /\ \A c \in inflight : Suspends(c.backend)
       \/ pc = "sleep"
    /\ cancelled_at' = Len(attempts)
    /\ inflight' = {}
    \* requests.post goes on in its executor thread
    /\ abandoned' = abandoned \cup {c \in inflight : c.backend = "call_grok_directly"}
    /\ IF pc # "sleep" /\ ExceptException("CancelledError")
       THEN IF pc = "await_direct"
            THEN BeginLoop /\ UNCHANGED <<retries, sleep_for, raised>>
            ELSE Handler /\ UNCHANGED <<models_to_try, tried_models, raised>>
       ELSE /\ raised' = [t |-> "CancelledError"]
            /\ pc' = "cancelled"
            /\ UNCHANGED <<models_to_try, tried_models, idx, retries, sleep_for>>
    /\ UNCHANGED <<api_keys, ANTHROPIC_AVAILABLE, GEMINI_AVAILABLE, max_retries, client_manager,
                   fallback_mapping, reliable, agent_model, fn, fn_in, fn_out, default_client,
                   error_logs, framework_streams, emitted, attempts, answer_raw,
                   runner_patched, agent_copy, fn_again, other_run>>

Next ==
    \/ StartDirect
    \/ StartLoop
    \/ DirectReturn
    \/ ForExhausted
    \/ ForSkipTried
    \/ ForNoProvider
    \/ ForNoClient
    \/ ForEnter
    \/ WhileExit
    \/ TryForced
    \/ TryCall
    \/ SimpleRunReturn
    \/ SleepDone
    \/ Cancel

Spec == Init /\ [][Next]_vars

(***************************************************************************)
(* The functions of the module applied on their own.                       *)
(***************************************************************************)
run_vars == <<api_keys, ANTHROPIC_AVAILABLE, GEMINI_AVAILABLE, max_retries, client_manager,
              fallback_mapping, default_client, reliable, agent_model, pc, models_to_try,
              tried_models, idx, retries, error_logs, sleep_for, inflight, framework_streams,
              emitted, raised, attempts, answer_raw>>

\* no run of stream_events is under way
NoRun ==
    /\ ANTHROPIC_AVAILABLE = TRUE
    /\ GEMINI_AVAILABLE = TRUE
    /\ max_retries = DefaultMaxRetries
    /\ reliable = NoProvider
    /\ agent_model = "gpt-4o"
    /\ pc = "idle"
    /\ models_to_try = <<>>
    /\ tried_models = {}
    /\ idx = 0
    /\ retries = 0
    /\ error_logs = <<>>
    /\ sleep_for = 0
    /\ inflight = {}
    /\ framework_streams = 0
    /\ emitted = NoEvent
    /\ raised = PyNone
    /\ attempts = <<>>
    /\ answer_raw = PyNone

aux_vars == <<abandoned, cancelled_at, runner_patched, agent_copy, fn_again, other_run>>

\* setup_retry_and_fallback_provider has not been called, nothing was cancelled
NoSetup ==
    /\ abandoned = {}
    /\ cancelled_at = 0 - 1
    /\ fn_again = NotApplied
    /\ other_run = NoOtherRun
    /\ runner_patched = FALSE
    /\ agent_copy = FALSE

\* the arguments of a backend caller and what its provider answers
CallerInputs ==
    {[caller |-> "call_claude_directly", lib |-> l, key |-> k, tools |-> tl,
      first |-> f, second |-> s] :
        l \in BOOLEAN, k \in BOOLEAN, tl \in BOOLEAN,
        f \in Raises \cup ClaudeReplies, s \in Raises \cup ClaudeReplies}
    \cup {[caller |-> "call_gemini_directly", lib |-> l, key |-> k, tools |-> tl,
           first |-> f] :
             l \in BOOLEAN, k \in BOOLEAN, tl \in BOOLEAN, f \in Raises \cup GeminiReplies}
    \cup {[caller |-> "call_grok_directly", lib |-> TRUE, key |-> k, tools |-> tl,
           first |-> f] :
             k \in BOOLEAN, tl \in BOOLEAN, f \in Raises \cup GrokReplies}

\* a backend caller from its head: the library check, the key check, the call
CallerResult(in) ==
    IF ~in.lib THEN RaiseResult("ImportError")
    ELSE IF ~in.key THEN RaiseResult("no_key")
    ELSE CASE in.caller = "call_claude_directly" ->
                 call_claude_directly(in.tools, in.first, in.second)
           [] in.caller = "call_gemini_directly" -> call_gemini_directly(in.tools, in.first)
           [] in.caller = "call_grok_directly" -> call_grok_directly(in.first)

\* the remote calls that one invocation of a backend caller makes: none when
\* it stops at its library or key check; call_claude_directly calls
\* client.messages.create again in its except branch
RemoteCalls(in) ==
    IF ~in.lib \/ ~in.key THEN 0
    ELSE IF in.caller = "call_claude_directly" /\ in.first.t = "raise" THEN 2
    ELSE 1

InitCallers ==
    /\ NoRun
    /\ api_keys = {}
    /\ client_manager = ModelClientManager({}, {})
    /\ default_client = PyNone
    /\ fallback_mapping = {}
    /\ fn_in \in CallerInputs
    /\ fn = fn_in.caller
    /\ fn_out = NotApplied
    /\ NoSetup

CallBackend ==
    /\ fn_out = NotApplied
    /\ fn_out' = CallerResult(fn_in)
    /\ UNCHANGED <<run_vars, fn, fn_in, aux_vars>>

NextCallers == CallBackend

SpecCallers == InitCallers /\ [][NextCallers]_vars

\* the models a plan may be asked for: those of the tables and unknown names
PlannerModels ==
    AllClassified \cup DOMAIN MODEL_TO_PROVIDER \cup {"totally-unknown-model", ""}

InitPlanner ==
    /\ NoRun
    /\ api_keys \in SUBSET Providers
    /\ default_client = PyNone
    /\ fallback_mapping = {}
    /\ \/ /\ fn \in {"get_fallback_models", "available_fallbacks"}
          /\ \E broken \in SUBSET api_keys :
                client_manager = ModelClientManager(api_keys, broken)
          /\ \E m \in PlannerModels : fn_in = [model |-> m]
       \/ /\ fn = "ModelClientManager"
          /\ client_manager = NoAttr
          /\ \E broken \in SUBSET api_keys : fn_in = [broken |-> broken]
    /\ fn_out = NotApplied
    /\ NoSetup

\* ModelClientManager(): the constructor returns and the object exists
ConstructManager ==
    /\ fn = "ModelClientManager"
    /\ fn_out = NotApplied
    /\ client_manager' = ModelClientManager(api_keys, fn_in.broken)
    /\ fn_out' = PyNone
    /\ UNCHANGED <<api_keys, ANTHROPIC_AVAILABLE, GEMINI_AVAILABLE, max_retries,
                   fallback_mapping, default_client, reliable, agent_model, pc,
                   models_to_try, tried_models, idx, retries, error_logs, sleep_for,
                   inflight, framework_streams, emitted, raised, attempts, answer_raw,
                   fn, fn_in, aux_vars>>

CallGetFallbackModels ==
    /\ fn = "get_fallback_models"
    /\ fn_out = NotApplied
    /\ fn_out' = PyList(get_fallback_models(fn_in.model))
    /\ UNCHANGED <<run_vars, fn, fn_in, aux_vars>>

CallAvailableFallbacks ==
    /\ fn = "available_fallbacks"
    /\ fn_out = NotApplied
    /\ fn_out' = PyList(available_fallbacks(client_manager, fn_in.model))
    /\ UNCHANGED <<run_vars, fn, fn_in, aux_vars>>

\* a second call of the same function with the same argument
CallGetFallbackModelsAgain ==
    /\ fn = "get_fallback_models"
    /\ fn_out # NotApplied
    /\ fn_again = NotApplied
    /\ fn_again' = PyList(get_fallback_models(fn_in.model))
    /\ UNCHANGED <<run_vars, fn, fn_in, fn_out, abandoned, cancelled_at, runner_patched,
                   agent_copy, other_run>>

CallAvailableFallbacksAgain ==
    /\ fn = "available_fallbacks"
    /\ fn_out # NotApplied
    /\ fn_again = NotApplied
    /\ fn_again' = PyList(available_fallbacks(client_manager, fn_in.model))
    /\ UNCHANGED <<run_vars, fn, fn_in, fn_out, abandoned, cancelled_at, runner_patched,
                   agent_copy, other_run>>

NextPlanner ==
    \/ CallGetFallbackModels
    \/ CallAvailableFallbacks
    \/ ConstructManager
    \/ CallGetFallbackModelsAgain
    \/ CallAvailableFallbacksAgain

SpecPlanner == InitPlanner /\ [][NextPlanner]_vars

\* pattern in str, for two strings given as character sequences
Contains(str, pattern) ==
    \E i \in 1..(Len(str) - Len(pattern) + 1) :
        SubSeq(str, i, i + Len(pattern) - 1) = pattern

\* min(a, b)
Min(a, b) == IF a <= b THEN a ELSE b

\* a variant that takes the larger of the request and the limit
Clamp_Max(max_tokens, max_tokens_limit) ==
    IF max_tokens >= max_tokens_limit THEN max_tokens ELSE max_tokens_limit

\* max_tokens = min(max_tokens, max_tokens_limit)
Clamp(max_tokens, max_tokens_limit) == Min(max_tokens, max_tokens_limit)

\* max_tokens_limit of call_claude_directly
claude_max_tokens_limit(name) ==
    IF Contains(name, <<"c", "l", "a", "u", "d", "e", "-", "3", "-", "7", "-", "s", "o", "n", "n", "e", "t">>) THEN 64000
    ELSE IF Contains(name, <<"-", "s", "o", "n", "n", "e", "t", "-">>) THEN 64000
    ELSE IF Contains(name, <<"-", "h", "a", "i", "k", "u", "-">>) THEN 32000
    ELSE 4096

\* max_tokens_limit of call_gemini_directly
gemini_max_tokens_limit(name) ==
    IF Contains(name, <<"g", "e", "m", "i", "n", "i", "-", "p", "r", "o">>) THEN 8192
    ELSE IF \/ Contains(name, <<"g", "e", "m", "i", "n", "i", "-", "2", ".", "0", "-", "f", "l", "a", "s", "h">>)
            \/ Contains(name, <<"g", "e", "m", "i", "n", "i", "-", "1", ".", "5", "-", "f", "l", "a", "s", "h">>) THEN 8192
    ELSE IF \/ Contains(name, <<"g", "e", "m", "i", "n", "i", "-", "2", ".", "0", "-", "u", "l", "t", "r", "a">>)
            \/ Contains(name, <<"g", "e", "m", "i", "n", "i", "-", "1", ".", "5", "-", "p", "r", "o">>) THEN 16384
    ELSE IF Contains(name, <<"g", "e", "m", "i", "n", "i", "-", "2", ".", "0", "-", "p", "r", "o">>) THEN 16384
    ELSE 8192

\* max_tokens_limit of call_grok_directly
grok_max_tokens_limit(name) ==
    IF Contains(name, <<"g", "r", "o", "k", "-", "2">>) THEN 8192 ELSE 4096

\* the max_tokens of the request a backend caller sends:
\* kwargs.get("max_tokens", 4096), clamped
RequestMaxTokens(caller, name, kwargs) ==
    LET max_tokens == Get(kwargs, "max_tokens", 4096)
        max_tokens_limit ==
            CASE caller = "call_claude_directly" -> claude_max_tokens_limit(name)
              [] caller = "call_gemini_directly" -> gemini_max_tokens_limit(name)
              [] caller = "call_grok_directly" -> grok_max_tokens_limit(name)
    IN  Clamp(max_tokens, max_tokens_limit)

\* model names a backend caller may be given, as character sequences
CallerModelNames ==
    {\* claude-3-7-sonnet-latest
     <<"c", "l", "a", "u", "d", "e", "-", "3", "-", "7", "-", "s", "o", "n", "n", "e", "t", "-", "l", "a", "t", "e", "s", "t">>,
     \* claude-3-5-haiku-latest
     <<"c", "l", "a", "u", "d", "e", "-", "3", "-", "5", "-", "h", "a", "i", "k", "u", "-", "l", "a", "t", "e", "s", "t">>,
     \* claude-3-5-sonnet-20240307
     <<"c", "l", "a", "u", "d", "e", "-", "3", "-", "5", "-", "s", "o", "n", "n", "e", "t", "-", "2", "0", "2", "4", "0", "3", "0", "7">>,
     \* claude-3-opus-latest
     <<"c", "l", "a", "u", "d", "e", "-", "3", "-", "o", "p", "u", "s", "-", "l", "a", "t", "e", "s", "t">>,
     \* claude-3-haiku
     <<"c", "l", "a", "u", "d", "e", "-", "3", "-", "h", "a", "i", "k", "u">>,
     \* claude-3.5-sonnet
     <<"c", "l", "a", "u", "d", "e", "-", "3", ".", "5", "-", "s", "o", "n", "n", "e", "t">>,
     \* gemini-pro
     <<"g", "e", "m", "i", "n", "i", "-", "p", "r", "o">>,
     \* gemini-pro-vision
     <<"g", "e", "m", "i", "n", "i", "-", "p", "r", "o", "-", "v", "i", "s", "i", "o", "n">>,
     \* gemini-1.5-pro
     <<"g", "e", "m", "i", "n", "i", "-", "1", ".", "5", "-", "p", "r", "o">>,
     \* gemini-1.5-flash
     <<"g", "e", "m", "i", "n", "i", "-", "1", ".", "5", "-", "f", "l", "a", "s", "h">>,
     \* gemini-2.0-pro
     <<"g", "e", "m", "i", "n", "i", "-", "2", ".", "0", "-", "p", "r", "o">>,
     \* gemini-2.0-pro-vision
     <<"g", "e", "m", "i", "n", "i", "-", "2", ".", "0", "-", "p", "r", "o", "-", "v", "i", "s", "i", "o", "n">>,
     \* gemini-2.0-ultra
     <<"g", "e", "m", "i", "n", "i", "-", "2", ".", "0", "-", "u", "l", "t", "r", "a">>,
     \* gemini-2.0-ultra-vision
     <<"g", "e", "m", "i", "n", "i", "-", "2", ".", "0", "-", "u", "l", "t", "r", "a", "-", "v", "i", "s", "i", "o", "n">>,
     \* gemini-2.0-flash
     <<"g", "e", "m", "i", "n", "i", "-", "2", ".", "0", "-", "f", "l", "a", "s", "h">>,
     \* gemini-2.0-flash-lite
     <<"g", "e", "m", "i", "n", "i", "-", "2", ".", "0", "-", "f", "l", "a", "s", "h", "-", "l", "i", "t", "e">>,
     \* gemini-2.0-flash-thinking-exp
     <<"g", "e", "m", "i", "n", "i", "-", "2", ".", "0", "-", "f", "l", "a", "s", "h", "-", "t", "h", "i", "n", "k", "i", "n", "g", "-", "e", "x", "p">>,
     \* grok
     <<"g", "r", "o", "k">>,
     \* grok-1
     <<"g", "r", "o", "k", "-", "1">>,
     \* grok-1.5-vision
     <<"g", "r", "o", "k", "-", "1", ".", "5", "-", "v", "i", "s", "i", "o", "n">>,
     \* grok-2
     <<"g", "r", "o", "k", "-", "2">>,
     \* grok-2-latest
     <<"g", "r", "o", "k", "-", "2", "-", "l", "a", "t", "e", "s", "t">>,
     \* grok-2-vision-1212
     <<"g", "r", "o", "k", "-", "2", "-", "v", "i", "s", "i", "o", "n", "-", "1", "2", "1", "2">>}

\* requested max_tokens around each of the limits
RequestedMaxTokens ==
    {1, 4096, 4097, 8192, 8193, 16384, 16385, 32000, 32001, 64000, 64001}

\* a backend caller is about to build its request
InitMaxTokens ==
    /\ NoRun
    /\ api_keys = Providers
    /\ client_manager = ModelClientManager(Providers, {})
    /\ default_client = PyNone
    /\ fallback_mapping = {}
    /\ fn \in {"call_claude_directly", "call_gemini_directly", "call_grok_directly"}
    /\ \E name \in CallerModelNames :
          \/ fn_in = [model_name |-> name, kwargs |-> EmptyDict]
          \/ \E requested \in RequestedMaxTokens :
                fn_in = [model_name |-> name, kwargs |-> [max_tokens |-> requested]]
    /\ fn_out = NotApplied
    /\ NoSetup

\* the caller computes the max_tokens of the request it sends
BuildRequest ==
    /\ fn_out = NotApplied
    /\ fn_out' = [max_tokens |-> RequestMaxTokens(fn, fn_in.model_name, fn_in.kwargs)]
    /\ UNCHANGED <<run_vars, fn, fn_in, aux_vars>>

NextMaxTokens == BuildRequest

SpecMaxTokens == InitMaxTokens /\ [][NextMaxTokens]_vars

\* parameter schemas of canonical tools; NoAttr: the tool has no parameters key
ParameterSchemas ==
    {NoAttr,
     EmptyDict,
     [type |-> ObjectToken],
     [type |-> ObjectToken, properties |-> EmptyDict],
     [type |-> ObjectToken, properties |-> [x |-> [type |-> StringToken]], required |-> <<"x">>],
     [type |-> ObjectToken,
      properties |-> [x |-> [type |-> StringToken], y |-> [description |-> "any"]],
      required |-> <<"y", "x">>],
     [properties |-> [x |-> [type |-> Upper(StringToken)]], required |-> <<"x">>]}

CanonicalTool(name, description, parameters) ==
    [type |-> "function",
     function |-> IF parameters = NoAttr
                  THEN [name |-> name, description |-> description]
                  ELSE [name |-> name, description |-> description, parameters |-> parameters]]

ToolDefs ==
    {CanonicalTool(n[1], n[2], ps) :
        n \in {<<"calculate", "adds">>, <<"search", "finds">>}, ps \in ParameterSchemas}
    \cup {[type |-> "retrieval"]}

RECURSIVE ListsOf(_, _)
ListsOf(S, n) ==
    IF n = 0 THEN {<<>>}
    ELSE LET shorter == ListsOf(S, n - 1)
         IN  shorter \cup {Append(l, x) : l \in {k \in shorter : Len(k) = n - 1}, x \in S}

TargetProviders == Providers \cup {"other"}

\* a list of canonical tools is about to be translated: fn_in.passed is the
\* list as the caller built it, fn_in.tools the same list object as it is now
InitTools ==
    /\ NoRun
    /\ api_keys = {}
    /\ client_manager = ModelClientManager({}, {})
    /\ default_client = PyNone
    /\ fallback_mapping = {}
    /\ fn = "convert_tools_for_provider"
    /\ \E tools \in ListsOf(ToolDefs, MaxTools) : fn_in = [passed |-> tools, tools |-> tools]
    /\ fn_out = [p \in TargetProviders |-> NotApplied]
    /\ NoSetup

\* convert_tools_for_provider(tools, provider, model_name) on the caller's list
ConvertToolsForProvider(provider) ==
    /\ fn_out[provider] = NotApplied
    /\ LET call == convert_tools_for_provider(fn_in.tools, provider)
       IN  /\ fn_out' = [fn_out EXCEPT ![provider] = PyList(call.result)]
           /\ fn_in' = [fn_in EXCEPT !.tools = call.tools]
    /\ UNCHANGED <<run_vars, fn, aux_vars>>

\* the translated list is handed to a function that translates what it
\* receives: call_claude_directly and call_gemini_directly do, and so does a
\* second convert_tools_for_provider
ConvertTranslatedTools(provider) ==
    /\ fn_out[provider] # NotApplied
    /\ fn_again = NotApplied
    /\ fn_again' = [provider |-> provider,
                    result |-> PyList(convert_tools_for_provider(fn_out[provider].v,
                                                                 provider).result)]
    /\ UNCHANGED <<run_vars, fn, fn_in, fn_out, abandoned, cancelled_at, runner_patched,
                   agent_copy, other_run>>

NextTools ==
    \E provider \in TargetProviders :
        \/ ConvertToolsForProvider(provider)
        \/ ConvertTranslatedTools(provider)

SpecTools == InitTools /\ [][NextTools]_vars

\* a variant that stores the client manager and the mapping on Agent before it
\* looks for a primary provider
setup_retry_and_fallback_provider_StoreFirst(keys, broken, before) ==
    LET manager == ModelClientManager(keys, broken)
        primary == primary_provider(manager)
    IN  IF primary = NoProvider
        THEN [before EXCEPT !.result = RaiseResult("ValueError"),
                            !.agent_copy = TRUE,
                            !.client_manager = manager,
                            !.fallback_mapping = PyDict({})]
        ELSE [result |-> PyNone,
              agent_copy |-> TRUE,
              client_manager |-> manager,
              fallback_mapping |-> PyDict({}),
              default_client |-> [t |-> "client", provider |-> primary],
              runner_patched |-> TRUE]

\* setup_retry_and_fallback_provider: what it returns or raises and the state
\* of Agent, of the framework's default client and of Runner after it
setup_retry_and_fallback_provider(keys, broken, before) ==
    LET manager == ModelClientManager(keys, broken)
        primary == primary_provider(manager)
    IN  IF primary = NoProvider
        THEN [before EXCEPT !.result = RaiseResult("ValueError"), !.agent_copy = TRUE]
        ELSE [result |-> PyNone,
              agent_copy |-> TRUE,
              client_manager |-> manager,
              fallback_mapping |-> PyDict({}),
              default_client |-> [t |-> "client", provider |-> primary],
              runner_patched |-> TRUE]

\* main of magi.py up to the end of the setup: the check of OPENAI_API_KEY
\* (sys.exit(1) without it), then setup_retry_and_fallback_provider
main(keys, broken, before) ==
    IF "openai" \notin keys
    THEN [before EXCEPT !.result = RaiseResult("SystemExit")]
    ELSE setup_retry_and_fallback_provider(keys, broken, before)

\* a process in which setup_retry_and_fallback_provider has not been called
InitSetup ==
    /\ NoRun
    /\ api_keys \in SUBSET Providers
    /\ \E broken \in SUBSET api_keys : fn_in = [broken |-> broken]
    /\ client_manager = NoAttr
    /\ fallback_mapping = NoAttr
    /\ default_client \in {PyNone, [t |-> "client", provider |-> "other"]}
    /\ fn \in {"setup_retry_and_fallback_provider", "main"}
    /\ fn_out = NotApplied
    /\ abandoned = {}
    /\ cancelled_at = 0 - 1
    /\ fn_again = NotApplied
    /\ other_run = NoOtherRun
    /\ runner_patched = FALSE
    /\ agent_copy \in BOOLEAN

\* the state that setup_retry_and_fallback_provider finds and leaves
SetupState ==
    [result |-> fn_out, agent_copy |-> agent_copy, client_manager |-> client_manager,
     fallback_mapping |-> fallback_mapping,
     default_client |-> default_client, runner_patched |-> runner_patched]

\* the process is left in the state after
Becomes(after) ==
    /\ fn_out' = after.result
    /\ agent_copy' = after.agent_copy
    /\ client_manager' = after.client_manager
    /\ fallback_mapping' = after.fallback_mapping
    /\ default_client' = after.default_client
    /\ runner_patched' = after.runner_patched
    /\ UNCHANGED <<api_keys, ANTHROPIC_AVAILABLE, GEMINI_AVAILABLE, max_retries, reliable,
                   agent_model, pc, models_to_try, tried_models, idx, retries, error_logs,
                   sleep_for, inflight, framework_streams, emitted, raised, attempts,
                   answer_raw, fn, fn_in, abandoned, cancelled_at, fn_again,
                   other_run>>

Setup ==
    /\ fn = "setup_retry_and_fallback_provider"
    /\ fn_out = NotApplied
    /\ Becomes(setup_retry_and_fallback_provider(api_keys, fn_in.broken, SetupState))

Main ==
    /\ fn = "main"
    /\ fn_out = NotApplied
    /\ Becomes(main(api_keys, fn_in.broken, SetupState))

NextSetup == Setup \/ Main

SpecSetup == InitSetup /\ [][NextSetup]_vars

(***************************************************************************)
(* Properties of one run of stream_events.                                 *)
(***************************************************************************)
\* the plan of the run: the requested model, then its fallbacks
Plan == <<agent_model>> \o MappingGet(fallback_mapping, client_manager, agent_model)

\* the number of attempts made so far on model m, by the way they were made
AttemptsOn(m, via) ==
    Cardinality({i \in DOMAIN attempts : attempts[i].model = m /\ attempts[i].via = via})

\* the run is inside the candidate loop
InLoop == pc \in {"for", "while", "await_simple_run", "sleep"}

\* a result with a non-empty tool-call list, or with a text that is neither
\* empty nor whitespace-only
NonEmptyResult(r) ==
    /\ r.t = "response"
    /\ HasChoices(r)
    /\ \/ Truthy(r.tool_calls)
       \/ r.content.t = "str" /\ Strip(r.content.v) # <<>>

\* the same, the text not being the four characters None either
AnswerResult(r) ==
    /\ NonEmptyResult(r)
    /\ Truthy(r.tool_calls) \/ r.content.v # NoneLiteral

\* a step in which the backend call under way returns r
ReturnStep(call, r) == DirectReturnWith(call, r) \/ SimpleRunReturnWith(call, r)

\* the step ends the run with an event of the candidate of the call
EndsWithEventOf(call) ==
    /\ pc' = "done"
    /\ emitted' # NoEvent
    /\ emitted'.model = call.model
    /\ inflight' = {}

\* once an event is emitted the run makes no attempt and no call any more
NothingAfterEvent == emitted # NoEvent => (pc = "done" /\ attempts' = attempts /\ inflight' = inflight)

\* C1 as stated: as soon as an attempt produces non-empty text or a non-empty
\* tool-call list, the candidate's event is emitted and the run ends; no
\* further attempt is made afterwards.
C1_SuccessEndsRun_AsStated ==
    [][/\ \A call \in inflight :
             \A r \in BackendResults(call.backend, call.model, api_keys, reliable) :
                (NonEmptyResult(r) /\ ReturnStep(call, r)) => EndsWithEventOf(call)
       /\ NothingAfterEvent]_vars

\* C1 amended: as soon as an attempt produces a non-empty tool-call list or a
\* text that is not empty, not whitespace-only and not the literal string
\* "None", the candidate's event is emitted and the run ends: no further
\* attempt on that candidate or on a later one is made.
C1_SuccessEndsRun ==
    [][/\ \A call \in inflight :
             \A r \in BackendResults(call.backend, call.model, api_keys, reliable) :
                (AnswerResult(r) /\ ReturnStep(call, r)) => EndsWithEventOf(call)
       /\ NothingAfterEvent]_vars

\* C1 witness: a run ended by an event of a candidate that had retries left and
\* later candidates after it, after an earlier candidate had failed
C1_Witness ==
    /\ pc = "done"
    /\ emitted # NoEvent
    /\ idx > 1
    /\ idx < Len(models_to_try)
    /\ retries < max_retries
    /\ emitted.model = models_to_try[idx]

\* the run has ended with the all-models-failed error
Exhausted == pc = "raised" /\ raised.t = "RuntimeError"

\* the candidates of the list that entered the retry loop: a provider and a client
Entered(m) == ProviderOf(m) # NoProvider /\ get_client_for_model(client_manager, m) # PyNone

\* C2: a failure of a backend call is never raised to the caller directly; the
\* only error a run raises of its own is the all-candidates-exhausted error,
\* raised after every candidate of the plan has been tried (a cancellation by
\* the caller is not an error of the run).
C2_OnlyExhaustionIsRaised ==
    (raised # PyNone /\ raised.t # "CancelledError") =>
        /\ raised.t = "RuntimeError"
        /\ models_to_try = Plan
        /\ tried_models = SeqToSet(Plan)

\* the first candidate of the plan that the reliable provider serves, or 0
FirstReliable ==
    LET served == {i \in DOMAIN Plan : reliable # NoProvider /\ ProviderOf(Plan[i]) = reliable}
    IN  IF served = {} THEN 0 ELSE CHOOSE i \in served : \A j \in served : i <= j

FirstIndex(seq, m) == CHOOSE i \in DOMAIN seq : seq[i] = m /\ \A j \in 1..(i - 1) : seq[j] # m

\* C3: when some candidate k of the plan has a backend that returns usable
\* content (and every candidate gets at least one attempt, max_retries >= 0),
\* the run does not end with the exhaustion error, and the event it emits is
\* of candidate k or of a candidate before it, whichever provider serves k.
C3_ReliableCandidateAnswers ==
    (FirstReliable > 0 /\ max_retries >= 0) =>
        /\ ~Exhausted
        /\ pc = "done" => FirstIndex(Plan, emitted.model) <= FirstReliable

\* the entries of the failure log that record a failed attempt on model m
AttemptEntries(m) ==
    Cardinality({i \in DOMAIN error_logs :
                    error_logs[i].model = m /\ error_logs[i].log = "attempt failed"})

\* C4: when every candidate has failed all its attempts, the failure log
\* carried to the caller holds one entry per failed attempt, N x (max_retries+1)
\* for the N candidates attempted, each naming its candidate.
C4_ExhaustionRecordsEveryAttempt ==
    Exhausted =>
        \A m \in SeqToSet(models_to_try) :
            /\ AttemptEntries(m) = AttemptsOn(m, "direct") + AttemptsOn(m, "loop")
            /\ Entered(m) => AttemptEntries(m) = max_retries + 1

\* the candidates the run has left behind after their attempts failed
LeftBehind == {models_to_try[i] : i \in {j \in DOMAIN models_to_try : j < idx}}

\* C5 as stated: a candidate with a client that fails every attempt is
\* attempted exactly max_retries+1 times before the run moves on, and no
\* candidate is attempted more than max_retries+1 times, the direct first call
\* counted.
C5_AttemptsPerCandidate_AsStated ==
    /\ \A m \in LeftBehind : Entered(m) => AttemptsOn(m, "loop") = max_retries + 1
    /\ \A m \in SeqToSet(Plan) : AttemptsOn(m, "direct") + AttemptsOn(m, "loop") <= max_retries + 1

\* C5 amended: a candidate with a client that fails every attempt is attempted
\* exactly max_retries+1 times in the retry loop before the run moves on; no
\* candidate is attempted more than max_retries+1 times in the loop, and only
\* the requested model gets one more attempt, the direct first call.
C5_AttemptsPerCandidate ==
    /\ \A m \in LeftBehind : Entered(m) => AttemptsOn(m, "loop") = max_retries + 1
    /\ \A m \in SeqToSet(Plan) \cup {attempts[i].model : i \in DOMAIN attempts} :
          /\ AttemptsOn(m, "loop") <= max_retries + 1
          /\ AttemptsOn(m, "direct") <= (IF m = agent_model THEN 1 ELSE 0)

\* C5 witness: with the default maximum, a candidate has been left behind
\* after 4 failed attempts in the loop and the run is on the next candidate
C5_Witness ==
    /\ max_retries = DefaultMaxRetries
    /\ pc = "while"
    /\ idx > 1
    /\ Entered(models_to_try[idx - 1])
    /\ models_to_try[idx - 1] # models_to_try[idx]
    /\ AttemptsOn(models_to_try[idx - 1], "loop") = DefaultMaxRetries + 1

\* a step in which an attempt of the retry loop fails
FailedAttemptStep ==
    \/ pc = "while" /\ attempts' # attempts /\ inflight' = {}
    \/ pc = "await_simple_run" /\ inflight' = {} /\ emitted' = NoEvent /\ cancelled_at' = cancelled_at

\* C6 as stated: after a failed attempt the counter is incremented; the same
\* candidate is re-attempted only if the incremented counter is below the
\* maximum, and at or above the maximum the run moves to the next candidate.
C6_RetryDecision_AsStated ==
    [][FailedAttemptStep =>
          /\ retries' = retries + 1
          /\ IF retries' < max_retries
             THEN pc' = "sleep" /\ idx' = idx
             ELSE pc' = "for" /\ idx' = idx + 1]_vars

\* C6 amended: after a failed attempt the counter is incremented; the same
\* candidate is re-attempted only if the incremented counter is at or below
\* the maximum, and when the counter exceeds the maximum the run moves to the
\* next candidate.
C6_RetryDecision ==
    [][FailedAttemptStep =>
          /\ retries' = retries + 1
          /\ IF retries' <= max_retries
             THEN pc' = "sleep" /\ idx' = idx
             ELSE pc' = "for" /\ idx' = idx + 1]_vars

\* C6 witness: a candidate is about to be re-attempted with its counter equal
\* to the default maximum
C6_Witness ==
    /\ pc = "sleep"
    /\ max_retries = DefaultMaxRetries
    /\ retries = max_retries

\* C7: when a run succeeds after failed attempts, the failure log holds one
\* entry per failed attempt made before the success, and the event is of the
\* candidate that succeeded.
C7_SuccessKeepsFailureLog ==
    (pc = "done" /\ Len(attempts) > 1) =>
        /\ emitted.model = attempts[Len(attempts)].model
        /\ Cardinality({i \in DOMAIN error_logs : error_logs[i].log = "attempt failed"})
              = Len(attempts) - 1

\* C8: candidates are attempted in plan order, the requested model first, then
\* the fallbacks in their order; no candidate is attempted after one that
\* follows it in the plan.
C8_PlanOrder ==
    LET plan == Plan
        at == [i \in DOMAIN attempts |-> FirstIndex(plan, attempts[i].model)]
    IN  /\ InLoop => models_to_try = plan
        /\ \A i \in DOMAIN attempts : attempts[i].model \in SeqToSet(plan)
        /\ \A i \in 1..(Len(attempts) - 1) : at[i] <= at[i + 1]

\* C8 witness: three different candidates have been attempted
C8_Witness ==
    /\ Cardinality({attempts[i].model : i \in DOMAIN attempts}) >= 3
    /\ attempts[1].model = agent_model

BlankContent(c) == c = PyNone \/ (c.t = "str" /\ Strip(c.v) = <<>>)

\* C10: an attempt whose response has no tool calls and whose text is missing,
\* empty or whitespace-only never ends the run with a success event, and the
\* text of a message event is the text of the model's response.
C10_EmptyContentIsNoSuccess ==
    (pc = "done" /\ answer_raw.t = "response") =>
        /\ ~(~HasToolCalls(answer_raw) /\ (~HasChoices(answer_raw) \/ BlankContent(answer_raw.content)))
        /\ emitted.type = "message" => emitted.content = answer_raw.content

(***************************************************************************)
(* Properties of the backend callers.                                      *)
(***************************************************************************)
\* the text a backend caller extracted from the reply it was given: for
\* call_gemini_directly without tools the reply's text, then the text of its
\* parts; for the others the text of the reply that was wrapped
ExtractedText(in) ==
    LET reply == IF in.caller = "call_claude_directly" /\ in.first.t = "raise"
                 THEN in.second ELSE in.first
    IN  IF in.caller = "call_gemini_directly" /\ ~in.tools /\ ~Truthy(reply.text)
        THEN reply.alt
        ELSE IF reply.text = NoAttr THEN PyStr(<<>>) ELSE reply.text

\* C11: a backend caller that has extracted no tool call and only empty text
\* raises a failure; it never returns a successful response in that case.
C11_CallersRejectEmpty ==
    (fn_out # NotApplied /\ fn_out.t = "response") =>
        \/ Truthy(fn_out.tool_calls)
        \/ ~BlankContent(ExtractedText(fn_in)) /\ ~BlankContent(fn_out.content)

(***************************************************************************)
(* Cancellation.                                                           *)
(***************************************************************************)
\* C12: when the caller cancels the task while a backend call is in flight or
\* during a backoff wait, the cancellation is raised to the caller and the
\* run makes no attempt, no retry and no call afterwards.
C12_CancellationPropagates ==
    cancelled_at >= 0 =>
        /\ pc = "cancelled"
        /\ raised = [t |-> "CancelledError"]
        /\ Len(attempts) = cancelled_at
        /\ inflight = {}
        /\ emitted = NoEvent

\* C12 witness: a run cancelled during the call of a retry, with retries and
\* candidates left
C12_Witness ==
    /\ pc = "cancelled"
    /\ sleep_for = 0
    /\ retries >= 1
    /\ retries < max_retries
    /\ idx < Len(models_to_try)
    /\ cancelled_at = Len(attempts)

(***************************************************************************)
(* Process-wide state.                                                     *)
(***************************************************************************)
\* C13: a run writes no process-wide state: the process-wide default client
\* is at every point of a run, and after it, the one that was configured
\* before the run, so that no other run can see a client chosen by this one.
C13_RunWritesNoGlobalState ==
    default_client = [t |-> "client", provider |-> primary_provider(client_manager)]

(***************************************************************************)
(* Properties of the planner.                                              *)
(***************************************************************************)
\* a planner call has returned
Planned(f) == fn = f /\ fn_out # NotApplied

\* C14: for a requested model that belongs to no capability class (unknown to
\* the tables, or with a provider but no class) get_fallback_models returns a
\* non-empty list that names models of at least two providers.
C14_UnknownModelHasPlan ==
    (Planned("get_fallback_models") /\ ClassOf(fn_in.model) = "none") =>
        /\ fn_out.v # <<>>
        /\ Cardinality({ProviderOf(m) : m \in SeqToSet(fn_out.v)}) >= 2

\* C15: for a classified model, in the list of either planner call every
\* same-class alternative of the model's own provider comes before every
\* same-class alternative of another provider, and inside each of the two
\* groups the models keep their declaration order in MODEL_CLASSES.
C15_SameProviderFirst ==
    (fn \in {"get_fallback_models", "available_fallbacks"} /\ fn_out # NotApplied
       /\ ClassOf(fn_in.model) # "none") =>
        LET model == fn_in.model
            out == fn_out.v
            own == MODEL_CLASSES[ClassOf(model)]
            alts == SeqToSet(out) \cap (SeqToSet(own) \ {model})
            mine(m) == ProviderOf(m) = ProviderOf(model)
        IN  /\ fn = "get_fallback_models" => alts = SeqToSet(own) \ {model}
            /\ \A a \in alts : \A b \in alts :
                  /\ (mine(a) /\ ~mine(b)) => FirstIndex(out, a) < FirstIndex(out, b)
                  /\ (mine(a) = mine(b) /\ FirstIndex(own, a) < FirstIndex(own, b))
                        => FirstIndex(out, a) < FirstIndex(out, b)

\* C15 witness: the plan of grok-2, which has two same-class alternatives of
\* its own provider declared around it and three of other providers
C15_Witness ==
    /\ Planned("get_fallback_models")
    /\ fn_in.model = "grok-2"
    /\ {"grok-2-latest", "grok", "o3-mini", "claude-3-7-sonnet-latest"} \subseteq SeqToSet(fn_out.v)

\* the providers that ModelClientManager lists as available
AvailableProviders == SeqToSet(client_manager.available_providers)

\* C16: available_fallbacks(m) is get_fallback_models(m) with exactly the
\* models of unavailable providers removed, the order of the others kept;
\* every model it returns is of an available provider and has a client.
C16_AvailableFallbacksFilter ==
    Planned("available_fallbacks") =>
        /\ fn_out.v = SelectSeq(get_fallback_models(fn_in.model),
                                LAMBDA m : ProviderOf(m) \in AvailableProviders)
        /\ \A m \in SeqToSet(fn_out.v) :
              /\ ProviderOf(m) \in AvailableProviders
              /\ get_client_for_model(client_manager, m) # PyNone

\* C16 witness: a list from which the models of a provider without key and of
\* a provider whose client could not be built were removed, others being kept
C16_Witness ==
    /\ Planned("available_fallbacks")
    /\ fn_in.model = "grok-2"
    /\ api_keys = {"openai", "anthropic", "xai"}
    /\ AvailableProviders = {"openai", "xai"}
    /\ Len(fn_out.v) >= 3
    /\ Len(fn_out.v) < Len(get_fallback_models(fn_in.model))

(***************************************************************************)
(* Properties of the tool translation.                                     *)
(***************************************************************************)
\* the providers the caller's list has been translated for
Translated == {p \in TargetProviders : fn_out[p] # NotApplied}

\* C17: translating tools for a provider leaves the canonical definitions
\* that were passed in unchanged, type tokens of the properties included;
\* hence each translation made so far, whatever was translated before it, is
\* the translation of the list as it was passed in.
C17_TranslationLeavesToolsUnchanged ==
    /\ fn_in.tools = fn_in.passed
    /\ \A p \in Translated :
          fn_out[p] = PyList(convert_tools_for_provider(fn_in.passed, p).result)

\* the function description that a translated tool carries, by target shape
Declaration(provider, tool) ==
    CASE provider = "anthropic" -> tool["custom"]
      [] provider = "google" -> tool["function_declarations"][1]
      [] OTHER -> tool["function"]

RequiredSet(declaration) ==
    IF "parameters" \in DOMAIN declaration /\ "required" \in DOMAIN declaration["parameters"]
    THEN SeqToSet(declaration["parameters"]["required"])
    ELSE {}

\* C18: a list of n canonical function tools translates, for each target
\* shape, to n tools in the same order, each with the name, the description
\* and the set of required fields of the tool it was made from.
C18_TranslationKeepsNameDescriptionRequired ==
    (FunctionTools(fn_in.passed) = fn_in.passed) =>
        \A p \in Translated :
            LET out == fn_out[p].v
            IN  /\ Len(out) = Len(fn_in.passed)
                /\ \A i \in DOMAIN out :
                      LET d == Declaration(p, out[i])
                          o == fn_in.passed[i]["function"]
                      IN  /\ d["name"] = o["name"]
                          /\ d["description"] = o["description"]
                          /\ RequiredSet(d) = RequiredSet(o)

\* C18 witness: two function tools, the second with two required fields, have
\* been translated for all the target shapes
C18_Witness ==
    /\ Translated = TargetProviders
    /\ Len(fn_in.passed) = 2
    /\ FunctionTools(fn_in.passed) = fn_in.passed
    /\ fn_in.passed[1]["function"]["name"] # fn_in.passed[2]["function"]["name"]
    /\ RequiredSet(fn_in.passed[2]["function"]) = {"x", "y"}
    /\ RequiredSet(fn_out["anthropic"].v[2]["custom"]) = {"x", "y"}

\* C19: a tool without parameters translates, for every target shape, to a
\* tool whose parameters are an explicit empty-object schema with an empty
\* properties map; for the google shape exactly type OBJECT, properties {}.
C19_NoParametersGivesEmptyObjectSchema ==
    \A p \in Translated \cap Providers :
        \A i \in DOMAIN fn_in.passed :
            LET tool == fn_in.passed[i]
            IN  (FunctionTools(fn_in.passed) = fn_in.passed
                   /\ "parameters" \notin DOMAIN tool["function"]) =>
                    LET d == Declaration(p, fn_out[p].v[i])
                    IN  /\ "parameters" \in DOMAIN d
                        /\ IF p = "google"
                           THEN d["parameters"] =
                                    [type |-> Upper(ObjectToken), properties |-> EmptyDict]
                           ELSE /\ "properties" \in DOMAIN d["parameters"]
                                /\ d["parameters"]["properties"] = EmptyDict
                                /\ Get(d["parameters"], "type", <<>>) = ObjectToken

C21_StartupWithAnyCredential ==
    (fn = "main" /\ fn_out # NotApplied /\ api_keys \ fn_in.broken # {}) =>
        /\ fn_out = PyNone
        /\ runner_patched
        /\ client_manager # NoAttr
        /\ SeqToSet(client_manager.available_providers) = api_keys \ fn_in.broken
        /\ client_manager.available_models =
              {m \in DOMAIN MODEL_TO_PROVIDER : MODEL_TO_PROVIDER[m] \in api_keys \ fn_in.broken}

(***************************************************************************)
(* Candidates without client.                                              *)
(***************************************************************************)
\* the model has a provider, and that provider has no client
NoClientFor(m) == ProviderOf(m) # NoProvider /\ ProviderOf(m) \notin client_manager.clients

\* C22: a candidate whose provider has no configured client is skipped
\* silently: no backend caller is invoked for it and nothing is recorded for
\* it in the failure log of the run.
C22_ClientlessCandidateSkippedSilently ==
    \A m \in SeqToSet(Plan) :
        NoClientFor(m) =>
            /\ \A i \in DOMAIN attempts : attempts[i].model # m
            /\ \A i \in DOMAIN error_logs : error_logs[i].model # m

(***************************************************************************)
(* More properties of the backend callers.                                 *)
(***************************************************************************)
\* C23: one invocation of a backend caller issues at most one remote call;
\* when that call fails the backend caller raises.
C23_OneRemoteCallPerInvocation ==
    fn_out # NotApplied =>
        /\ RemoteCalls(fn_in) <= 1
        /\ (fn_in.lib /\ fn_in.key /\ fn_in.first.t = "raise") => fn_out.t = "raise"

\* C24: a response of a backend caller never carries both a text that is
\* neither empty nor whitespace-only and a non-empty tool-call list.
C24_TextAndToolCallsExclusive ==
    (fn_out # NotApplied /\ fn_out.t = "response") =>
        ~(~BlankContent(fn_out.content) /\ Truthy(fn_out.tool_calls))

\* C25: constructing ModelClientManager returns an object even when the client
\* of some provider cannot be built: the providers with a client are exactly
\* those with a credential whose construction did not fail, and a provider is in
\* available_providers exactly when it has an entry in clients.
C25_ConstructionSurvivesBrokenProvider ==
    /\ (fn = "ModelClientManager" /\ fn_out # NotApplied) =>
            /\ client_manager # NoAttr
            /\ client_manager.clients = api_keys \ fn_in.broken
    /\ client_manager # NoAttr =>
            /\ SeqToSet(client_manager.available_providers) = client_manager.clients
            /\ client_manager.available_models =
                    {m \in DOMAIN MODEL_TO_PROVIDER :
                        MODEL_TO_PROVIDER[m] \in client_manager.clients}

C25_Witness ==
    /\ fn = "ModelClientManager"
    /\ fn_out # NotApplied
    /\ "openai" \in fn_in.broken
    /\ client_manager.clients = {"anthropic", "xai"}

(***************************************************************************)
(* More properties of the candidate loop.                                  *)
(***************************************************************************)
\* the loop is about to look at a candidate it has not tried yet
AtFreshCandidate ==
    /\ pc = "for"
    /\ idx <= Len(models_to_try)
    /\ models_to_try[idx] \notin tried_models

\* C26: when the loop reaches a candidate without a provider mapping, or whose
\* provider has no client, nothing is raised and no call is attempted: the run
\* goes on to the next candidate of the plan; an attempt of the loop is only
\* ever made on a candidate whose provider has a client.
C26_NoClientMeansNextCandidate ==
    [][/\ (AtFreshCandidate /\ (ProviderOf(models_to_try[idx]) = NoProvider
                                \/ NoClientFor(models_to_try[idx]))) =>
             /\ pc' = "for"
             /\ idx' = idx + 1
             /\ UNCHANGED <<attempts, inflight, raised, default_client>>
       /\ Len(attempts') > Len(attempts) =>
             LET a == attempts'[Len(attempts')]
             IN  a.via = "loop" =>
                    /\ ProviderOf(a.model) # NoProvider
                    /\ ProviderOf(a.model) \in client_manager.clients]_vars

C26_Witness ==
    /\ pc = "done"
    /\ \E i \in DOMAIN error_logs :
          /\ error_logs[i].log = "No client available"
          /\ AttemptsOn(error_logs[i].model, "loop") = 0
          /\ \E j \in DOMAIN attempts :
                /\ attempts[j].via = "loop"
                /\ FirstIndex(Plan, attempts[j].model) > FirstIndex(Plan, error_logs[i].model)

(***************************************************************************)
(* More properties of the fallback plan.                                   *)
(***************************************************************************)
\* a registry in which exactly the providers of the set avail are available
RegistryOf(avail) == ModelClientManager(avail, {})

\* C27: two computations of the plan for the same model in the same registry
\* state give the same ordered list, and the list depends only on the model
\* and on the set of available providers: it is the one computed in any
\* registry with the same available providers, whatever credentials are set
\* and whichever providers failed to build.
C27_PlanIsDeterministic ==
    /\ fn_again # NotApplied => fn_again = fn_out
    /\ (fn = "available_fallbacks" /\ fn_out # NotApplied) =>
          fn_out = PyList(available_fallbacks(
                      RegistryOf(SeqToSet(client_manager.available_providers)), fn_in.model))
    /\ (fn = "get_fallback_models" /\ fn_out # NotApplied) =>
          \A avail \in SUBSET Providers :
              SelectSeq(fn_out.v, LAMBDA m : ProviderOf(m) \in avail)
                  = available_fallbacks(RegistryOf(avail), fn_in.model)

C27_Witness ==
    /\ fn = "available_fallbacks"
    /\ fn_again # NotApplied
    /\ Len(fn_again.v) >= 2
    /\ client_manager.clients # api_keys

(***************************************************************************)
(* More properties of the retry handler.                                   *)
(***************************************************************************)
\* the answer of a backend that makes the attempt a failed one: an exception
\* of any kind, or a response without tool calls and without text
FailedAnswer(r) == r.t = "raise" \/ ~NonEmptyResult(r)

\* C28: the step that ends an attempt of the loop either yields an event made
\* from a usable answer, or is the transition of a failed attempt, which is
\* the same for every kind of failure: the counter is incremented and, by the
\* counter and the maximum alone, the candidate is re-attempted after a wait
\* or the run moves to the next candidate.
C28_FailureKindDoesNotMatter ==
    [][(pc = "await_simple_run" /\ inflight' = {} /\ cancelled_at' = cancelled_at) =>
          IF pc' = "done"
          THEN ~FailedAnswer(answer_raw')
          ELSE /\ retries' = retries + 1
               /\ IF retries' <= max_retries
                  THEN pc' = "sleep" /\ idx' = idx
                  ELSE pc' = "for" /\ idx' = idx + 1]_vars

C30_AttemptInvokesBackendOnce ==
    \A i \in DOMAIN attempts :
        attempts[i].via = "loop" =>
            /\ ProviderOf(attempts[i].model) \in client_manager.clients
            /\ attempts[i].backend # "none"

(***************************************************************************)
(* The shape of the fallback plan.                                         *)
(***************************************************************************)
\* the models of the classes standard and mini
LighterModels == SeqToSet(MODEL_CLASSES["standard"]) \cup SeqToSet(MODEL_CLASSES["mini"])

\* the classes that list model
ClassesOf(model) == {c \in DOMAIN MODEL_CLASSES : model \in SeqToSet(MODEL_CLASSES[c])}

\* C31: the plan of a model of class reasoning, vision or search holds the
\* other models of its class and then every standard and mini model, those of
\* the requested model's provider before those of other providers; the plan of
\* a standard or mini model holds only models of its own class. What
\* available_fallbacks keeps of the plan is in the same order.
C31_HeavyClassesDegradeToLighter ==
    (fn \in {"get_fallback_models", "available_fallbacks"} /\ fn_out # NotApplied
       /\ ClassesOf(fn_in.model) # {}) =>
        LET model == fn_in.model
            plan == fn_out.v
            cls == CHOOSE c \in ClassesOf(model) : TRUE
            own == SeqToSet(MODEL_CLASSES[cls])
        IN  /\ Cardinality(ClassesOf(model)) = 1
            /\ IF cls \in {"standard", "mini"}
               THEN /\ SeqToSet(plan) \subseteq own
                    /\ fn = "get_fallback_models" => SeqToSet(plan) = own \ {model}
               ELSE /\ SeqToSet(plan) \subseteq (own \ {model}) \cup LighterModels
                    /\ fn = "get_fallback_models" =>
                          SeqToSet(plan) = (own \ {model}) \cup LighterModels
                    /\ \A i, j \in DOMAIN plan :
                          (plan[i] \in own /\ plan[j] \in LighterModels) => i < j
                    /\ \A i, j \in DOMAIN plan :
                          (/\ plan[i] \in LighterModels
                           /\ plan[j] \in LighterModels
                           /\ ProviderOf(plan[i]) = ProviderOf(model)
                           /\ ProviderOf(plan[j]) # ProviderOf(model)) => i < j

C31_Witness ==
    /\ fn = "get_fallback_models"
    /\ fn_out # NotApplied
    /\ fn_in.model = "claude-3-7-sonnet-latest"
    /\ \E i, j \in DOMAIN fn_out.v :
          /\ i < j
          /\ fn_out.v[i] = "claude-3-5-haiku-latest"
          /\ fn_out.v[j] = "gpt-4o"

\* the plans computed on their own and the runs of stream_events
InitPlanAndRun == Init \/ InitPlanner

NextPlanAndRun == Next \/ NextPlanner

SpecPlanAndRun == InitPlanAndRun /\ [][NextPlanAndRun]_vars

NoDuplicates(seq) == \A i, j \in DOMAIN seq : seq[i] = seq[j] => i = j

\* C32: the plan computed for a classified model holds no model twice and
\* does not hold the requested model; in a run a candidate enters the retry
\* loop only if it was not tried before, so that no model gets more than the
\* max_retries + 1 attempts of one entry, whatever the configured list holds.
C32_NoModelTwice ==
    [][/\ (fn \in {"get_fallback_models", "available_fallbacks"} /\ fn_out # NotApplied
            /\ ClassesOf(fn_in.model) # {}) =>
              /\ NoDuplicates(fn_out.v)
              /\ fn_in.model \notin SeqToSet(fn_out.v)
       /\ (pc = "for" /\ pc' = "while") =>
              /\ models_to_try[idx] \notin tried_models
              /\ AttemptsOn(models_to_try[idx], "loop") = 0
       /\ \A i \in DOMAIN attempts :
              attempts[i].via = "loop" =>
                 /\ attempts[i].model \in tried_models
                 /\ AttemptsOn(attempts[i].model, "loop") <= max_retries + 1]_vars

C32_Witness ==
    /\ pc = "for"
    /\ idx >= 3
    /\ models_to_try[2] = models_to_try[1]
    /\ max_retries >= 0
    /\ AttemptsOn(models_to_try[1], "loop") = max_retries + 1

IsUpperCase(str) == \A i \in DOMAIN str : str[i] \notin SeqToSet(LowerCase)

\* C34: in the google translation of canonical function tools, each tool is a
\* dict with the single key function_declarations holding a list of one
\* declaration; the schema of the declaration has a type, in upper case, which
\* is OBJECT when the canonical schema had none; and the type of every property
\* of the schema is in upper case, being the upper-cased type of that
\* property in the canonical tool.
C34_GoogleShapeUpperCased ==
    ("google" \in Translated /\ FunctionTools(fn_in.passed) = fn_in.passed) =>
        LET out == fn_out["google"].v
        IN  /\ Len(out) = Len(fn_in.passed)
            /\ \A i \in DOMAIN out :
                  LET orig == Get(fn_in.passed[i]["function"], "parameters", EmptyDict)
                  IN  /\ DOMAIN out[i] = {"function_declarations"}
                      /\ Len(out[i]["function_declarations"]) = 1
                      /\ LET ps == out[i]["function_declarations"][1]["parameters"]
                         IN  /\ "type" \in DOMAIN ps
                             /\ IsUpperCase(ps["type"])
                             /\ "type" \notin DOMAIN orig =>
                                    ps["type"] = <<"O", "B", "J", "E", "C", "T">>
                             /\ "type" \in DOMAIN orig =>
                                    Len(ps["type"]) = Len(orig["type"])
                             /\ "properties" \in DOMAIN orig =>
                                    /\ "properties" \in DOMAIN ps
                                    /\ DOMAIN ps["properties"] = DOMAIN orig["properties"]
                                    /\ \A n \in DOMAIN orig["properties"] :
                                          "type" \in DOMAIN orig["properties"][n] =>
                                             /\ "type" \in DOMAIN ps["properties"][n]
                                             /\ IsUpperCase(ps["properties"][n]["type"])
                                             /\ Len(ps["properties"][n]["type"])
                                                   = Len(orig["properties"][n]["type"])

C34_Witness ==
    /\ "google" \in Translated
    /\ Len(fn_in.passed) = 2
    /\ FunctionTools(fn_in.passed) = fn_in.passed
    /\ "parameters" \in DOMAIN fn_in.passed[1]["function"]
    /\ fn_in.passed[1]["function"]["parameters"]
          = [type |-> <<"o", "b", "j", "e", "c", "t">>,
             properties |-> [x |-> [type |-> <<"s", "t", "r", "i", "n", "g">>]],
             required |-> <<"x">>]
    /\ fn_out["google"].v[1]["function_declarations"][1]["parameters"]["properties"]["x"]["type"]
          = <<"S", "T", "R", "I", "N", "G">>
    /\ "parameters" \notin DOMAIN fn_in.passed[2]["function"]
    /\ fn_out["google"].v[2]["function_declarations"][1]["parameters"]["type"]
          = <<"O", "B", "J", "E", "C", "T">>

(***************************************************************************)
(* Properties of the requests of the backend callers.                      *)
(***************************************************************************)
\* the max_tokens asked of the caller: 4096 when none was passed
RequestedOrDefault ==
    IF "max_tokens" \in DOMAIN fn_in.kwargs THEN fn_in.kwargs["max_tokens"] ELSE 4096

\* the ceiling by family: the family name anywhere in the model name
CeilingByFamilyName(caller, name) ==
    CASE caller = "call_claude_directly" ->
            IF Contains(name, <<"s", "o", "n", "n", "e", "t">>) THEN 64000
            ELSE IF Contains(name, <<"h", "a", "i", "k", "u">>) THEN 32000
            ELSE 4096
      [] caller = "call_gemini_directly" ->
            IF \/ Contains(name, <<"g", "e", "m", "i", "n", "i", "-", "2", ".", "0", "-", "u", "l", "t", "r", "a">>)
               \/ Contains(name, <<"g", "e", "m", "i", "n", "i", "-", "1", ".", "5", "-", "p", "r", "o">>)
               \/ Contains(name, <<"g", "e", "m", "i", "n", "i", "-", "2", ".", "0", "-", "p", "r", "o">>)
            THEN 16384 ELSE 8192
      [] caller = "call_grok_directly" ->
            IF Contains(name, <<"g", "r", "o", "k", "-", "2">>) THEN 8192 ELSE 4096

\* the ceiling by the patterns of the callers: for anthropic the family name
\* between two hyphens, or claude-3-7-sonnet; for google the name gemini-pro
\* and the flash names come first
CeilingByPattern(caller, name) ==
    CASE caller = "call_claude_directly" ->
            IF Contains(name, <<"c", "l", "a", "u", "d", "e", "-", "3", "-", "7", "-", "s", "o", "n", "n", "e", "t">>) \/ Contains(name, <<"-", "s", "o", "n", "n", "e", "t", "-">>) THEN 64000
            ELSE IF Contains(name, <<"-", "h", "a", "i", "k", "u", "-">>) THEN 32000
            ELSE 4096
      [] caller = "call_gemini_directly" ->
            IF /\ \/ Contains(name, <<"g", "e", "m", "i", "n", "i", "-", "2", ".", "0", "-", "u", "l", "t", "r", "a">>)
                  \/ Contains(name, <<"g", "e", "m", "i", "n", "i", "-", "1", ".", "5", "-", "p", "r", "o">>)
                  \/ Contains(name, <<"g", "e", "m", "i", "n", "i", "-", "2", ".", "0", "-", "p", "r", "o">>)
               /\ ~Contains(name, <<"g", "e", "m", "i", "n", "i", "-", "p", "r", "o">>)
               /\ ~Contains(name, <<"g", "e", "m", "i", "n", "i", "-", "2", ".", "0", "-", "f", "l", "a", "s", "h">>)
               /\ ~Contains(name, <<"g", "e", "m", "i", "n", "i", "-", "1", ".", "5", "-", "f", "l", "a", "s", "h">>)
            THEN 16384 ELSE 8192
      [] caller = "call_grok_directly" ->
            IF Contains(name, <<"g", "r", "o", "k", "-", "2">>) THEN 8192 ELSE 4096

\* C35 as stated: the max_tokens sent is the smaller of the requested
\* max_tokens and the ceiling of the model, the ceiling being chosen by the
\* family name found anywhere in the model name (sonnet, haiku, ...).
C35_MaxTokensClamped_AsStated ==
    fn_out # NotApplied =>
        LET ceiling == CeilingByFamilyName(fn, fn_in.model_name)
        IN  /\ fn_out.max_tokens <= ceiling
            /\ fn_out.max_tokens <= RequestedOrDefault
            /\ fn_out.max_tokens \in {ceiling, RequestedOrDefault}

\* C35 amended: the max_tokens sent is the smaller of the requested
\* max_tokens (4096 when none is requested) and the ceiling of the model,
\* the ceiling being chosen by the patterns claude-3-7-sonnet, -sonnet- and
\* -haiku- for anthropic, by gemini-2.0-ultra, gemini-1.5-pro and
\* gemini-2.0-pro for google unless the name holds gemini-pro or a flash
\* name, and by grok-2 for xai.
C35_MaxTokensClamped ==
    fn_out # NotApplied =>
        LET ceiling == CeilingByPattern(fn, fn_in.model_name)
        IN  /\ fn_out.max_tokens <= ceiling
            /\ fn_out.max_tokens <= RequestedOrDefault
            /\ fn_out.max_tokens \in {ceiling, RequestedOrDefault}

C35_Witness ==
    /\ fn = "call_claude_directly"
    /\ fn_out # NotApplied
    /\ fn_in.model_name = <<"c", "l", "a", "u", "d", "e", "-", "3", "-", "5", "-", "h", "a", "i", "k", "u", "-", "l", "a", "t", "e", "s", "t">>
    /\ "max_tokens" \in DOMAIN fn_in.kwargs
    /\ fn_in.kwargs["max_tokens"] > fn_out.max_tokens
    /\ fn_out.max_tokens = 32000

(***************************************************************************)
(* Two runs of stream_events on one event loop.                            *)
(***************************************************************************)
MaxRetriesTwoRuns == 1

\* what a run keeps to itself: the caller's agent, the position of the
\* generator, its local variables and the error_logs of its wrapper object
LiveRun ==
    [agent_model |-> agent_model, pc |-> pc, models_to_try |-> models_to_try,
     tried_models |-> tried_models, idx |-> idx, retries |-> retries,
     error_logs |-> error_logs, sleep_for |-> sleep_for, inflight |-> inflight,
     framework_streams |-> framework_streams, emitted |-> emitted, raised |-> raised,
     attempts |-> attempts, answer_raw |-> answer_raw, cancelled_at |-> cancelled_at]

\* a run that patched_run_streamed has created and that has not started
FreshRun(model) ==
    [agent_model |-> model, pc |-> "start", models_to_try |-> <<>>, tried_models |-> {},
     idx |-> 0, retries |-> 0, error_logs |-> <<>>, sleep_for |-> 0, inflight |-> {},
     framework_streams |-> 0, emitted |-> NoEvent, raised |-> PyNone, attempts |-> <<>>,
     answer_raw |-> PyNone, cancelled_at |-> 0 - 1]

\* the models requested by the two runs
FirstRunModels == {"gpt-4o", "claude-3-7-sonnet-latest", "totally-unknown-model"}

SecondRunModels == {"gpt-4o", "grok-2"}

\* the generator is not running: it has not started, it is suspended in an
\* await, or it is over
Suspended ==
    \/ pc \in {"start", "sleep", "done", "raised", "cancelled"}
    \/ pc \in {"await_direct", "await_simple_run"} /\ \A c \in inflight : Suspends(c.backend)

InitTwoRuns ==
    /\ api_keys = {"openai", "xai"}
    /\ ANTHROPIC_AVAILABLE = TRUE
    /\ GEMINI_AVAILABLE = TRUE
    /\ max_retries \in (0 - 1)..MaxRetriesTwoRuns
    /\ client_manager = ModelClientManager(api_keys, {})
    /\ agent_model \in FirstRunModels
    /\ fallback_mapping = {<<"gpt-4o", ConfiguredList>>}
    /\ default_client = [t |-> "client", provider |-> primary_provider(client_manager)]
    /\ reliable = NoProvider
    /\ pc = "start"
    /\ models_to_try = <<>>
    /\ tried_models = {}
    /\ idx = 0
    /\ retries = 0
    /\ error_logs = <<>>
    /\ sleep_for = 0
    /\ inflight = {}
    /\ framework_streams = 0
    /\ emitted = NoEvent
    /\ raised = PyNone
    /\ attempts = <<>>
    /\ answer_raw = PyNone
    /\ fn = "stream_events"
    /\ fn_in = PyNone
    /\ fn_out = PyNone
    /\ abandoned = {}
    /\ cancelled_at = 0 - 1
    /\ fn_again = NotApplied
    /\ runner_patched = TRUE
    /\ agent_copy = TRUE
    /\ \E model \in SecondRunModels : other_run = FreshRun(model)

\* a variant in which tried_models belongs to the wrapper class, not to the run
Resume_SharedTried(run) ==
    /\ agent_model' = run.agent_model
    /\ pc' = run.pc
    /\ models_to_try' = run.models_to_try
    /\ tried_models' = tried_models
    /\ idx' = run.idx
    /\ retries' = run.retries
    /\ error_logs' = run.error_logs
    /\ sleep_for' = run.sleep_for
    /\ inflight' = run.inflight
    /\ framework_streams' = run.framework_streams
    /\ emitted' = run.emitted
    /\ raised' = run.raised
    /\ attempts' = run.attempts
    /\ answer_raw' = run.answer_raw
    /\ cancelled_at' = run.cancelled_at

\* the event loop resumes a run: its frame and its wrapper object are current
Resume(run) ==
    /\ agent_model' = run.agent_model
    /\ pc' = run.pc
    /\ models_to_try' = run.models_to_try
    /\ tried_models' = run.tried_models
    /\ idx' = run.idx
    /\ retries' = run.retries
    /\ error_logs' = run.error_logs
    /\ sleep_for' = run.sleep_for
    /\ inflight' = run.inflight
    /\ framework_streams' = run.framework_streams
    /\ emitted' = run.emitted
    /\ raised' = run.raised
    /\ attempts' = run.attempts
    /\ answer_raw' = run.answer_raw
    /\ cancelled_at' = run.cancelled_at

\* at a suspension point the event loop goes on with the other run; the
\* process-wide state (environment, Agent attributes, default client) stays
Switch ==
    /\ other_run # NoOtherRun
    /\ Suspended
    /\ other_run.pc \notin {"done", "raised", "cancelled"}
    /\ other_run' = LiveRun
    /\ Resume(other_run)
    /\ UNCHANGED <<api_keys, ANTHROPIC_AVAILABLE, GEMINI_AVAILABLE, max_retries,
                   client_manager, fallback_mapping, default_client, reliable, fn, fn_in,
                   fn_out, abandoned, runner_patched, agent_copy, fn_again>>

NextTwoRuns == Next \/ Switch

SpecTwoRuns == InitTwoRuns /\ [][NextTwoRuns]_vars

\* the candidates of a run, from its own request
PlanOf(model) == <<model>> \o MappingGet(fallback_mapping, client_manager, model)

LoopAttempts(run, m) ==
    Cardinality({i \in DOMAIN run.attempts :
                    run.attempts[i].model = m /\ run.attempts[i].via = "loop"})

\* what a run that runs alone has attempted when it is where run is: nothing
\* before the loop; in the loop every candidate before the current one that
\* has a client max_retries + 1 times, the current one as often as its retry
\* counter says, no other candidate; and one direct call at most, for the
\* requested model
AsAlone(run) ==
    LET plan == PlanOf(run.agent_model)
        full == IF max_retries >= 0 THEN max_retries + 1 ELSE 0
        inloop == run.pc \in {"for", "while", "await_simple_run", "sleep"}
        last == IF run.pc = "for" THEN run.idx - 1 ELSE run.idx
    IN  /\ \A i \in DOMAIN run.attempts :
              /\ run.attempts[i].model \in SeqToSet(plan)
              /\ run.attempts[i].via = "direct" => (i = 1 /\ run.attempts[i].model = plan[1])
        /\ \A i \in DOMAIN run.error_logs : run.error_logs[i].model \in SeqToSet(plan)
        /\ \A m \in SeqToSet(plan) : LoopAttempts(run, m) <= full
        /\ run.pc \in {"start", "await_direct"} =>
              /\ run.tried_models = {}
              /\ run.retries = 0
              /\ \A m \in SeqToSet(plan) : LoopAttempts(run, m) = 0
        /\ inloop =>
              /\ run.models_to_try = plan
              /\ run.tried_models = {plan[j] : j \in 1..last}
              /\ run.pc # "for" => run.retries \in 0..full
              /\ \A m \in SeqToSet(plan) :
                    LET j == FirstIndex(plan, m)
                    IN  LoopAttempts(run, m) =
                          IF ProviderOf(m) \notin client_manager.clients THEN 0
                          ELSE IF j < run.idx THEN full
                          ELSE IF j = run.idx /\ run.pc # "for"
                          THEN (IF run.pc = "await_simple_run"
                                THEN run.retries + 1 ELSE run.retries)
                          ELSE 0
        /\ (run.pc = "raised" /\ run.raised.t = "RuntimeError") =>
              /\ run.tried_models = SeqToSet(plan)
              /\ \A m \in SeqToSet(plan) :
                    LoopAttempts(run, m) =
                       IF ProviderOf(m) \in client_manager.clients THEN full ELSE 0

\* C36: while two runs interleave at their suspension points, each of them
\* has attempted exactly the candidates, and each candidate exactly as often,
\* as a run that runs alone and stands where it stands; its retry counter, its
\* tried-model set and its error log are about its own candidates only.
C36_RunsDoNotInterfere ==
    /\ AsAlone(LiveRun)
    /\ other_run # NoOtherRun => AsAlone(other_run)

C36_Witness ==
    /\ other_run # NoOtherRun
    /\ pc = "sleep"
    /\ other_run.pc = "sleep"
    /\ agent_model # other_run.agent_model
    /\ tried_models # other_run.tried_models
    /\ error_logs # other_run.error_logs
    /\ idx > 1
    /\ other_run.idx = 1
    /\ LoopAttempts(LiveRun, "gpt-4o") = max_retries + 1
    /\ LoopAttempts(other_run, "gpt-4o") = 0

(***************************************************************************)
(* Termination of a run.                                                   *)
(***************************************************************************)
\* the largest max_retries of the runs whose termination is checked
MaxRetriesLive == 1

\* the runs whose termination is checked
InitLive ==
    /\ Init
    /\ api_keys \in {{"openai", "xai"}, {"openai", "google", "xai"}}
    /\ ANTHROPIC_AVAILABLE
    /\ max_retries <= MaxRetriesLive
    /\ reliable = NoProvider

\* every backend call returns or raises and the event loop goes on with the
\* generator: no step that is possible is put off for ever
SpecLive == InitLive /\ [][Next]_vars /\ WF_vars(Next)

\* the run is over: it has emitted its event, or it has raised the error that
\* says that all candidates failed (or its caller has cancelled it)
EndedAsSpecified ==
    \/ pc = "done" /\ emitted # NoEvent
    \/ pc = "raised" /\ raised.t = "RuntimeError"
    \/ pc = "cancelled"

\* C37: every run ends, by emitting one event or by raising the exhaustion
\* error, and at no time has it made more attempts than the candidates of
\* its plan times max_retries + 1, plus the direct first call.
C37_RunTerminates ==
    /\ [](Len(attempts) <= Cardinality(SeqToSet(Plan)) * (max_retries + 1) + 1)
    /\ <>EndedAsSpecified

(***************************************************************************)
(* The events of a run.                                                    *)
(***************************************************************************)
\* an event as the claim describes it: a text event with a text that is
\* neither None, empty nor whitespace-only and without tool calls, or a
\* tool-call event with a non-empty list of tool calls and without text
WellFormedEvent(event) ==
    \/ /\ event.type = "message"
       /\ DOMAIN event = {"type", "content", "model"}
       /\ event.content.t = "str"
       /\ Strip(event.content.v) # <<>>
    \/ /\ event.type = "tool_calls"
       /\ DOMAIN event = {"type", "tool_calls", "model"}
       /\ event.tool_calls.t = "list"
       /\ event.tool_calls.v # <<>>

\* C38: a run emits at most one event: an event once emitted is the last thing
\* the run does, a run that succeeds has emitted exactly one well-formed
\* event (text or tool calls, never both), and a run that ends with the
\* exhaustion error has emitted none.
C38_AtMostOneEvent ==
    [][/\ emitted # NoEvent => emitted' = emitted /\ pc = "done" /\ pc' = "done"
       /\ emitted' # NoEvent => WellFormedEvent(emitted')
       /\ pc' = "done" => emitted' # NoEvent
       /\ (pc' = "raised" /\ raised'.t = "RuntimeError") => emitted' = NoEvent]_vars

C38_Witness ==
    \/ pc = "done" /\ emitted.type = "tool_calls" /\ Len(attempts) > 1
    \/ pc = "done" /\ emitted.type = "message" /\ Len(attempts) > 1
                   /\ answer_raw.t = "response" /\ Truthy(answer_raw.content)

(***************************************************************************)
(* The caller's agent.                                                     *)
(***************************************************************************)
\* C39: no step of a run changes agent.model: each candidate is tried on a
\* copy of the agent, and the model of the candidate is written to the copy.
C39_RequestUnchanged ==
    [][agent_model' = agent_model]_vars

\* the run is over after a candidate other than the requested model was
\* tried on its copy
C39_Witness ==
    /\ pc \in {"done", "raised"}
    /\ \E m \in tried_models : m # agent_model /\ Entered(m)
    /\ \E i \in DOMAIN attempts : attempts[i].model # agent_model

====
